---- MODULE Spec2Model ----
(***************************************************************************)
(* Synthia 4.2 voice-call pipeline: the multi-provider reasoning engine    *)
(* (backend/services/reasoning_engine.py), the utterance segmenter         *)
(* (AudioBuffer in backend/services/audio_utils.py) and the per-call       *)
(* session (backend/services/voice_call.py driven by the media-stream loop *)
(* of backend/services/voice_server.py).                                   *)
(*                                                                         *)
(* The specifications share one variable vector:                           *)
(*   SpecChat  the reasoning engine called with arbitrary provider outcomes*)
(*   SpecSeg   one AudioBuffer fed arbitrary 160-byte frames               *)
(*   SpecAudio the small AudioBuffer with the content of its accumulator   *)
(*   SpecFlush the fixed 80/40/16 frame script on a default AudioBuffer    *)
(*   SpecPayload  add_chunk given payloads of several lengths              *)
(*   SpecCodec, SpecResample  the mu-law codec and the resamplers          *)
(*   Spec      one call session driven by the media-stream event loop      *)
(*   SpecFair  Spec with every awaited call returning                      *)
(*   SpecRestart  Spec with start events repeated on the connection        *)
(*   SpecScenario  the same session led through the reference call         *)
(*   SpecBrief to_brief on arbitrary conversation contexts                 *)
(*   SpecCalls several connections handled at once                         *)
(*   SpecMemory   the clients table under remember_client                  *)
(***************************************************************************)
EXTENDS Integers, Sequences, FiniteSets, TLC

VARIABLES
    \* ---- ReasoningEngine ----
    _providers,        \* list of LLMConfig records, in fallback order
    _active_provider,  \* provider recorded by the last successful chat(), or "none"
    chat_pc,           \* position inside chat(): "idle", "try", "returned", "raised"
    chat_i,            \* index of the provider the for-loop of chat() is at
    chat_hint,         \* language_hint argument of the running/last chat()
    chat_system,       \* language directive appended to the system prompt
    chat_calls,        \* providers called by the running/last chat(), in call order
    chat_outcomes,     \* what each of those calls did, in call order
    chat_result,       \* value returned by the last chat(), or NoResult
    \* ---- AudioBuffer ----
    _buffer,           \* len(self._buffer): accumulated mu-law bytes
    _min_bytes,        \* constructor argument min_bytes
    _max_bytes,        \* constructor argument max_bytes
    _silence_chunks,   \* run of consecutive silent frames
    _speech_detected,  \* a non-silent frame was seen since the last flush
    seg_op,            \* last AudioBuffer method called
    seg_ret,           \* its return value: utterance length in bytes, or None
    seg_run_loud,      \* every frame fed since the accumulator was last empty was non-silent
    script_pos,        \* frames of the fixed frame script fed so far
    flushes,           \* [at, len] of every utterance add_chunk returned to the script
    \* ---- VoiceCallManager and the media-stream loop that drives it ----
    state,             \* self.state (CallState)
    pc,                \* where the connection's task is: "recv", an await, or "closed"
    in_hangup,         \* _process_utterance was entered from on_hangup
    hangup_from,       \* which branch of the loop called on_hangup
    _is_playing,       \* self._is_playing
    _mark_counter,     \* self._mark_counter
    messages,          \* self.context.messages
    _chat_history,     \* self._chat_history
    detected_language, \* self.context.detected_language
    _client_language,  \* self._client_language
    _client_name,      \* self._client_name
    niche,             \* self.context.niche
    page_type,         \* self.context.page_type
    preferences,       \* self.context.preferences
    patterns_discussed, \* self.context.patterns_discussed
    client_notes,      \* self.context.client_notes
    detected_lang,     \* local detected_lang of the running _process_utterance
    response,          \* chunks returned by the last on_connect / on_mulaw_chunk
    outbox,            \* messages sent to the platform so far, in order
    hangups,           \* how many times on_hangup was entered
    job_id,            \* value on_hangup returned
    starts,            \* start events handled
    tts_lang,          \* language of the last synthesize() call, or "none"
    brief,             \* the brief on_hangup built (sequence of parts), or NoBrief
    scen,              \* how far the call has followed the reference event sequence
    \* ---- audio_utils functions called on their own ----
    util_op,           \* the function applied last, or "none"
    util_in,           \* its argument
    util_out,          \* what it returned
    \* ---- several connections at once ----
    managers,          \* the VoiceCallManager of each open connection
    audio_buffers,     \* the content of each AudioBuffer: the connection every frame came from
    \* ---- MemoryStore ----
    clients,           \* the row of the clients table for one client_id, or NoRow
    mem_call,          \* keyword arguments of the last remember_client call
    \* ---- the audio an AudioBuffer holds ----
    seg_content,       \* self._buffer: the frames accumulated, in order
    seg_fed,           \* every frame passed to add_chunk so far, in order
    seg_out            \* every utterance returned so far, in order

engineVars == <<_providers, _active_provider, chat_pc, chat_i, chat_hint,
                chat_system, chat_calls, chat_outcomes, chat_result>>

segVars == <<_buffer, _min_bytes, _max_bytes, _silence_chunks, _speech_detected,
             seg_op, seg_ret, seg_run_loud>>

scriptVars == <<script_pos, flushes>>

callVars == <<state, pc, in_hangup, hangup_from, _is_playing, _mark_counter, messages,
              _chat_history, detected_language, _client_language, _client_name,
              niche, page_type, preferences, patterns_discussed, client_notes,
              detected_lang, response, outbox, hangups, job_id,
              starts, tts_lang, brief>>

scenVars == <<scen>>

utilVars == <<util_op, util_in, util_out>>

multiVars == <<managers, audio_buffers>>

memVars == <<clients, mem_call>>

audioVars == <<seg_content, seg_fed, seg_out>>

vars == <<engineVars, segVars, scriptVars, callVars, scenVars, utilVars, multiVars, memVars, audioVars>>

-----------------------------------------------------------------------------
(* ReasoningEngine                                                         *)

\* LLMProvider enum values, in the order _load_providers appends them.
ProviderOrder == <<"glm", "anthropic", "openai", "google", "ollama">>

\* Providers that are configured only when their API key is in the environment.
KeyedProviders == {"glm", "anthropic", "openai", "google"}

\* LLMConfig: only the fields chat() reads.
LLMConfig(p) == [provider |-> p, enabled |-> TRUE]

RECURSIVE LoadFrom(_, _)
LoadFrom(i, keys) ==
    IF i > Len(ProviderOrder) THEN <<>>
    ELSE LET p == ProviderOrder[i]
         IN  IF p \in keys \/ p = "ollama"
             THEN <<LLMConfig(p)>> \o LoadFrom(i + 1, keys)
             ELSE LoadFrom(i + 1, keys)

\* _load_providers: one append per key found, Ollama always.
LoadProviders(keys) == LoadFrom(1, keys)

\* What one _call_provider invocation can do: return a text, return an empty
\* text, or raise (HTTP/network error, 401/403, 429, KeyError/IndexError on a
\* malformed body, httpx timeout).
FailureKinds == {"network", "auth", "rate_limit", "malformed", "timeout"}
Outcomes == {"ok", "empty"} \cup FailureKinds

\* Every failure kind is a subclass of Exception, which is what chat() catches.
CaughtHTTPOnly(kind) == kind \in {"network", "auth", "rate_limit", "timeout"}
Caught(kind) == kind \in FailureKinds

NoResult == [kind |-> "none"]
ProviderText(p) == [kind |-> "text", by |-> p]
\* The literal returned at the end of chat(): one English sentence.
ApologyPerHint(hint) == [kind |-> "apology", lang |-> hint]
Apology(hint) == [kind |-> "apology", lang |-> "en"]

LanguageHints == {"en", "es", "hi", "fr"}
SupportedLanguages == {"en", "es", "hi"}

\* lang_instruction = {...}.get(language_hint, "")
LangInstruction(hint) == IF hint \in SupportedLanguages THEN hint ELSE ""

EngineInit(keys) ==
    /\ _providers = LoadProviders(keys)
    /\ _active_provider = "none"
    /\ chat_pc = "idle"
    /\ chat_i = 0
    /\ chat_hint = "en"
    /\ chat_system = ""
    /\ chat_calls = <<>>
    /\ chat_outcomes = <<>>
    /\ chat_result = NoResult

\* chat() entered: the directive is built and the for-loop starts.
ChatStart(hint) ==
    /\ chat_pc \in {"idle", "returned"}
    /\ chat_pc' = "try"
    /\ chat_i' = 1
    /\ chat_hint' = hint
    /\ chat_system' = LangInstruction(hint)
    /\ chat_calls' = <<>>
    /\ chat_outcomes' = <<>>
    /\ chat_result' = NoResult
    /\ UNCHANGED <<_providers, _active_provider>>

\* One iteration of the for-loop, continuing the chat() that is running.
ChatIterOnFirstOnly(outcome) ==
    LET cfg == _providers[chat_i] IN
    /\ chat_calls' = Append(chat_calls, cfg.provider)
    /\ chat_outcomes' = Append(chat_outcomes, outcome)
    /\ IF outcome = "ok"
       THEN /\ _active_provider' = cfg.provider
            /\ chat_result' = ProviderText(cfg.provider)
            /\ chat_pc' = IF chat_i = 1 THEN "returned" ELSE "try"
            /\ chat_i' = IF chat_i = 1 THEN chat_i ELSE chat_i + 1
       ELSE /\ chat_i' = chat_i + 1
            /\ chat_pc' = "try"
            /\ UNCHANGED <<_active_provider, chat_result>>

\* "if result is not None:" in place of "if result:".
ChatIterAcceptsEmpty(outcome) ==
    LET cfg == _providers[chat_i] IN
    /\ chat_calls' = Append(chat_calls, cfg.provider)
    /\ chat_outcomes' = Append(chat_outcomes, outcome)
    /\ IF outcome \in {"ok", "empty"}
       THEN /\ _active_provider' = cfg.provider
            /\ chat_result' = IF outcome = "ok" THEN ProviderText(cfg.provider)
                               ELSE [kind |-> "empty", by |-> cfg.provider]
            /\ chat_pc' = "returned"
            /\ UNCHANGED chat_i
       ELSE /\ chat_i' = chat_i + 1
            /\ UNCHANGED <<_active_provider, chat_pc, chat_result>>

ChatIter(outcome) ==
    LET cfg == _providers[chat_i] IN
    IF ~cfg.enabled
    THEN /\ chat_i' = chat_i + 1
         /\ UNCHANGED <<_active_provider, chat_pc, chat_calls, chat_outcomes,
                        chat_result>>
    ELSE /\ chat_calls' = Append(chat_calls, cfg.provider)
         /\ chat_outcomes' = Append(chat_outcomes, outcome)
         /\ IF outcome = "ok"
            THEN \* if result: record the provider and return
                 /\ _active_provider' = cfg.provider
                 /\ chat_result' = ProviderText(cfg.provider)
                 /\ chat_pc' = "returned"
                 /\ UNCHANGED chat_i
            ELSE IF outcome = "empty" \/ Caught(outcome)
            THEN \* falsy result, or except Exception: continue
                 /\ chat_i' = chat_i + 1
                 /\ UNCHANGED <<_active_provider, chat_pc, chat_result>>
            ELSE \* an exception the handler does not catch leaves chat()
                 /\ chat_pc' = "raised"
                 /\ UNCHANGED <<_active_provider, chat_i, chat_result>>

ChatTryDisablesFailed ==
    /\ chat_pc = "try"
    /\ chat_i <= Len(_providers)
    /\ \E outcome \in Outcomes :
          /\ ChatIter(outcome)
          /\ _providers' = IF outcome = "ok" THEN _providers
                           ELSE [_providers EXCEPT ![chat_i].enabled = FALSE]
    /\ UNCHANGED <<chat_hint, chat_system>>

\* The body of the for-loop runs once; chat() only reads self._providers.
ChatTry ==
    /\ chat_pc = "try"
    /\ chat_i <= Len(_providers)
    /\ \E outcome \in Outcomes : ChatIter(outcome)
    /\ UNCHANGED <<_providers, chat_hint, chat_system>>

\* The loop ran out of providers: the final return statement.
ChatExhausted ==
    /\ chat_pc = "try"
    /\ chat_i > Len(_providers)
    /\ chat_result' = Apology(chat_hint)
    /\ chat_pc' = "returned"
    /\ UNCHANGED <<_providers, _active_provider, chat_i, chat_hint, chat_system,
                   chat_calls, chat_outcomes>>

EngineIdle == EngineInit({})

ChatCall == \E hint \in LanguageHints : ChatStart(hint)


-----------------------------------------------------------------------------
(* mu-law decode and frame energy                                          *)

Pow2(n) == IF n = 0 THEN 1 ELSE IF n = 1 THEN 2 ELSE IF n = 2 THEN 4
           ELSE IF n = 3 THEN 8 ELSE IF n = 4 THEN 16 ELSE IF n = 5 THEN 32
           ELSE IF n = 6 THEN 64 ELSE 128

MULAW_BIAS == 132

MulawDecodeByteBiasKept(i) ==
    LET val      == 255 - i
        sign     == (val \div 128) % 2
        exponent == (val \div 16) % 8
        mantissa == val % 16
        sample   == ((mantissa * 8) + MULAW_BIAS) * Pow2(exponent)
    IN  IF sign = 1 THEN 0 - sample ELSE sample

\* One entry of _build_mulaw_decode_table: val = ~i, of which only the low
\* eight bits (255 - i) are read.
MulawDecodeByte(i) ==
    LET val      == 255 - i
        sign     == (val \div 128) % 2
        exponent == (val \div 16) % 8
        mantissa == val % 16
        sample   == ((mantissa * 8) + MULAW_BIAS) * Pow2(exponent) - MULAW_BIAS
    IN  IF sign = 1 THEN 0 - sample ELSE sample

Abs(x) == IF x < 0 THEN 0 - x ELSE x

\* audioop.ulaw2lin(bytes(range(256)), 2): the G.711 mu-law expansion table
\* of the C library mulaw_decode calls first, entry b + 1 for byte b.
Ulaw2LinTable ==
    <<
       -32124, -31100, -30076, -29052, -28028, -27004, -25980, -24956,
       -23932, -22908, -21884, -20860, -19836, -18812, -17788, -16764,
       -15996, -15484, -14972, -14460, -13948, -13436, -12924, -12412,
       -11900, -11388, -10876, -10364, -9852, -9340, -8828, -8316,
       -7932, -7676, -7420, -7164, -6908, -6652, -6396, -6140,
       -5884, -5628, -5372, -5116, -4860, -4604, -4348, -4092,
       -3900, -3772, -3644, -3516, -3388, -3260, -3132, -3004,
       -2876, -2748, -2620, -2492, -2364, -2236, -2108, -1980,
       -1884, -1820, -1756, -1692, -1628, -1564, -1500, -1436,
       -1372, -1308, -1244, -1180, -1116, -1052, -988, -924,
       -876, -844, -812, -780, -748, -716, -684, -652,
       -620, -588, -556, -524, -492, -460, -428, -396,
       -372, -356, -340, -324, -308, -292, -276, -260,
       -244, -228, -212, -196, -180, -164, -148, -132,
       -120, -112, -104, -96, -88, -80, -72, -64,
       -56, -48, -40, -32, -24, -16, -8, 0,
       32124, 31100, 30076, 29052, 28028, 27004, 25980, 24956,
       23932, 22908, 21884, 20860, 19836, 18812, 17788, 16764,
       15996, 15484, 14972, 14460, 13948, 13436, 12924, 12412,
       11900, 11388, 10876, 10364, 9852, 9340, 8828, 8316,
       7932, 7676, 7420, 7164, 6908, 6652, 6396, 6140,
       5884, 5628, 5372, 5116, 4860, 4604, 4348, 4092,
       3900, 3772, 3644, 3516, 3388, 3260, 3132, 3004,
       2876, 2748, 2620, 2492, 2364, 2236, 2108, 1980,
       1884, 1820, 1756, 1692, 1628, 1564, 1500, 1436,
       1372, 1308, 1244, 1180, 1116, 1052, 988, 924,
       876, 844, 812, 780, 748, 716, 684, 652,
       620, 588, 556, 524, 492, 460, 428, 396,
       372, 356, 340, 324, 308, 292, 276, 260,
       244, 228, 212, 196, 180, 164, 148, 132,
       120, 112, 104, 96, 88, 80, 72, 64,
       56, 48, 40, 32, 24, 16, 8, 0
    >>

MULAW_CLIP == 32635

MulawEncodeSampleNoBias(s) ==
    LET sign     == IF s < 0 THEN 128 ELSE 0
        clipped  == IF Abs(s) > MULAW_CLIP THEN MULAW_CLIP ELSE Abs(s)
        biased   == clipped
        hits     == {e \in 1..7 : (biased \div (Pow2(e) * 128)) % 2 = 1}
        exponent == IF hits = {} THEN 0 ELSE CHOOSE e \in hits : \A f \in hits : f <= e
        mantissa == (biased \div (Pow2(exponent) * 8)) % 16
    IN  255 - (sign + exponent * 16 + mantissa)

\* The pure-Python body of mulaw_encode for one sample: sign, clip, bias,
\* the highest exponent in 7..1 whose mask bit 0x4000 >> (7 - exp) is set
\* (0 when none is), the mantissa, and the complement of the code.
MulawEncodeSample(s) ==
    LET sign     == IF s < 0 THEN 128 ELSE 0
        clipped  == IF Abs(s) > MULAW_CLIP THEN MULAW_CLIP ELSE Abs(s)
        biased   == clipped + MULAW_BIAS
        hits     == {e \in 1..7 : (biased \div (Pow2(e) * 128)) % 2 = 1}
        exponent == IF hits = {} THEN 0 ELSE CHOOSE e \in hits : \A f \in hits : f <= e
        mantissa == (biased \div (Pow2(exponent) * 8)) % 16
    IN  255 - (sign + exponent * 16 + mantissa)

\* Inbound frames: 20 ms of 8 kHz mu-law, every sample the same companded byte.
FrameSize == 160
FrameBytes == {255, 220, 219, 0}
Frame(b) == [byte |-> b, len |-> FrameSize]
Frames == {Frame(b) : b \in FrameBytes}

\* audioop.rms(mulaw_decode(chunk), 2): the root mean square of a frame whose
\* samples all equal s is |s|.
Rms(frame) == IF frame.len = 0 THEN 0 ELSE Abs(MulawDecodeByte(frame.byte))

-----------------------------------------------------------------------------
(* Sample rate conversion                                                  *)

ResampleUpNoTail(samples) ==
    LET n == Len(samples) IN
    [j \in 1..(IF n = 0 THEN 0 ELSE 2 * n - 2) |->
        IF j % 2 = 1 THEN samples[(j + 1) \div 2]
        ELSE (samples[j \div 2] + samples[(j \div 2) + 1]) \div 2]

\* resample_8k_to_16k: every sample but the last followed by the floored
\* midpoint to its successor, then the last sample.
ResampleUp(samples) ==
    LET n == Len(samples) IN
    [j \in 1..(IF n = 0 THEN 0 ELSE 2 * n - 1) |->
        IF j % 2 = 1 THEN samples[(j + 1) \div 2]
        ELSE (samples[j \div 2] + samples[(j \div 2) + 1]) \div 2]

\* resample_16k_to_8k: samples[::2]
ResampleDown(samples) ==
    [j \in 1..((Len(samples) + 1) \div 2) |-> samples[2 * j - 1]]

Pcm(samples, odd) == [kind |-> "pcm", samples |-> samples, odd |-> odd]

\* audioop.ratecv raises on a rate that is not positive and on a buffer that
\* is not a whole number of 2-byte frames.
RateCvRaises(pcm, rate) == rate <= 0 \/ pcm.odd

\* What audioop.ratecv returns otherwise: the buffer converted to 8 kHz.
RateCv(pcm, rate) == [kind |-> "converted", from |-> rate, to |-> 8000, of |-> pcm]

ResampleTo8kRejects(pcm, rate) ==
    IF rate = 8000 THEN pcm
    ELSE IF rate # 16000 \/ RateCvRaises(pcm, rate)
    THEN [kind |-> "error", name |-> "UnsupportedRate"]
    ELSE RateCv(pcm, rate)

\* resample_to_8k: the input at 8000, the conversion from any other rate,
\* and the input again when the conversion raises.
ResampleTo8k(pcm, rate) ==
    IF rate = 8000 THEN pcm
    ELSE IF RateCvRaises(pcm, rate) THEN pcm
    ELSE RateCv(pcm, rate)

-----------------------------------------------------------------------------
(* AudioBuffer                                                             *)

None == -1

DefaultMinBytes == 8000
DefaultMaxBytes == 64000
SilenceThreshold == 500
SilenceRun == 15
FlushRemainingThreshold == 160

\* The two ways the repository constructs an AudioBuffer: the defaults
\* (also what VoiceCallManager passes) and the unit test's small buffer.
BufferConfigs == {[min |-> DefaultMinBytes, max |-> DefaultMaxBytes],
                  [min |-> 160, max |-> 1000]}

IsSilent(rms) == rms < SilenceThreshold

CapReachedStrict(len, max) == len > max
CapReached(len, max) == len >= max

VadReadyNoSpeech(len, min, speech, silence) ==
    len >= min /\ silence >= SilenceRun
VadReady(len, min, speech, silence) ==
    len >= min /\ speech /\ silence >= SilenceRun

SegInit(cfg) ==
    /\ _buffer = 0
    /\ _min_bytes = cfg.min
    /\ _max_bytes = cfg.max
    /\ _silence_chunks = 0
    /\ _speech_detected = FALSE
    /\ seg_op = "none"
    /\ seg_ret = None
    /\ seg_run_loud = FALSE

\* _flush: hand the accumulator out and reset the three fields.
Flushed(len) ==
    [ret |-> len, buffer |-> 0, silence |-> 0, speech |-> FALSE]

AddChunkResultCapNeedsSilence(frame) ==
    LET len     == _buffer + frame.len
        silent  == IsSilent(Rms(frame))
        silence == IF silent THEN _silence_chunks + 1 ELSE 0
        speech  == IF silent THEN _speech_detected ELSE TRUE
    IN  IF VadReady(len, _min_bytes, speech, silence)
        THEN Flushed(len)
        ELSE IF CapReached(len, _max_bytes) /\ silent
        THEN Flushed(len)
        ELSE [ret |-> None, buffer |-> len, silence |-> silence, speech |-> speech]

\* add_chunk on the current accumulator: the value returned and the fields
\* it leaves behind.
AddChunkResult(frame) ==
    LET len     == _buffer + frame.len
        silent  == IsSilent(Rms(frame))
        silence == IF silent THEN _silence_chunks + 1 ELSE 0
        speech  == IF silent THEN _speech_detected ELSE TRUE
    IN  IF CapReached(len, _max_bytes)
        THEN Flushed(len)
        ELSE IF VadReady(len, _min_bytes, speech, silence)
        THEN Flushed(len)
        ELSE [ret |-> None, buffer |-> len, silence |-> silence, speech |-> speech]

FlushRemainingResultAlways == Flushed(_buffer)

FlushRemainingResultAtLeastOne ==
    IF _buffer >= FlushRemainingThreshold
    THEN Flushed(_buffer)
    ELSE [ret |-> None, buffer |-> _buffer, silence |-> _silence_chunks,
          speech |-> _speech_detected]

\* flush_remaining on the current accumulator.
FlushRemainingResult ==
    IF _buffer > FlushRemainingThreshold
    THEN Flushed(_buffer)
    ELSE [ret |-> None, buffer |-> _buffer, silence |-> _silence_chunks,
          speech |-> _speech_detected]

\* The accumulator fields after a call that produced r.
BufferBecomes(r) ==
    /\ _buffer' = r.buffer
    /\ _silence_chunks' = r.silence
    /\ _speech_detected' = r.speech
    /\ UNCHANGED <<_min_bytes, _max_bytes>>

AddChunk(frame) ==
    LET r == AddChunkResult(frame) IN
    /\ BufferBecomes(r)
    /\ seg_op' = "add_chunk"
    /\ seg_ret' = r.ret
    /\ seg_run_loud' = (~IsSilent(Rms(frame)) /\ (_buffer = 0 \/ seg_run_loud))

FlushRemaining ==
    LET r == FlushRemainingResult IN
    /\ BufferBecomes(r)
    /\ seg_op' = "flush_remaining"
    /\ seg_ret' = r.ret
    /\ UNCHANGED seg_run_loud

ScriptIdle == script_pos = 0 /\ flushes = <<>>

-----------------------------------------------------------------------------
(* VoiceCallManager, driven by twilio_media_stream                         *)

\* Bounds of the session model.
MaxTurns == 3
MaxStarts == 1

\* What Whisper can hand back for an utterance: text with or without
\* Devanagari characters, Spanish markers or words, transliterated Hindi
\* words, a niche keyword, a self-introduction; and for _extract_context a
\* page keyword, the pattern a pattern keyword stands for, and whether the
\* text is longer than 20 characters.
UserText(dev, spa, hin, nk, name) ==
    [kind |-> "user_text", devanagari |-> dev, spanish |-> spa, hinglish |-> hin,
     niche_kw |-> nk, name |-> name, page_kw |-> "", pattern |-> "", long |-> FALSE]
UserTexts == {[UserText(FALSE, FALSE, FALSE, "ecommerce", "Ana") EXCEPT !.long = TRUE],
              UserText(FALSE, TRUE, TRUE, "", ""),
              UserText(TRUE, FALSE, FALSE, "", ""),
              [UserText(FALSE, FALSE, TRUE, "", "") EXCEPT
                  !.page_kw = "product", !.pattern = "parallax-depth-layers"]}
\* transcribe() raised, or mulaw_to_wav_16k did.
SttFailed == [kind |-> "fail"]
\* transcribe() returned text that is empty once stripped.
SttBlank == [UserText(FALSE, FALSE, FALSE, "", "") EXCEPT !.kind = "blank"]
\* An accessor at the head of _process_utterance raised, outside every try.
ProcessRaised == [kind |-> "raise"]
SttOutcomes == {SttFailed, SttBlank, ProcessRaised} \cup UserTexts

\* _detect_language: Devanagari first, then Spanish, then transliterated Hindi.
DetectLanguage(text) ==
    IF text.devanagari THEN "hi"
    ELSE IF text.spanish THEN "es"
    ELSE IF text.hinglish THEN "hi"
    ELSE "en"

\* Who _identify_caller finds: nobody (a new record is created), a stored
\* client, or a memory store that raises.
Callers == {[kind |-> "new"],
            [kind |-> "known", name |-> "Ana", language |-> "es"],
            [kind |-> "known", name |-> "", language |-> "hi"],
            [kind |-> "mem_error"]}

\* The greeting on_connect builds: by name and stored language when the
\* name is known, the generic English one otherwise.
Greeting(name, lang) ==
    IF name # ""
    THEN [kind |-> "greeting", named |-> TRUE,
          lang |-> IF lang \in {"es", "hi"} THEN lang ELSE "en"]
    ELSE [kind |-> "greeting", named |-> FALSE, lang |-> "en"]

\* fallbacks.get(detected_lang, fallbacks["en"]) of _process_utterance
ReasoningFallback(lang) ==
    [kind |-> "fallback", lang |-> IF lang \in {"en", "es", "hi"} THEN lang ELSE "en"]

Turn(role, content) == [role |-> role, content |-> content]

\* ElevenLabs outcome: an error, or audio that transcodes to so many bytes.
TtsOutcomes == {[ok |-> FALSE, bytes |-> 0],
                [ok |-> TRUE, bytes |-> 0],
                [ok |-> TRUE, bytes |-> 1000]}

ChunkSize == 640

\* split_mulaw_for_twilio: the lengths of the chunks, in order.
RECURSIVE SplitMulaw(_)
SplitMulaw(n) ==
    IF n <= 0 THEN <<>>
    ELSE IF n <= ChunkSize THEN <<n>>
    ELSE <<ChunkSize>> \o SplitMulaw(n - ChunkSize)

MediaMessage(len) == [event |-> "media", len |-> len]
\* create_mark_message: "greeting_end", or f"response_{counter}"
MarkName(base, n) == [base |-> base, n |-> n]
MarkMessage(name) == [event |-> "mark", name |-> name]
ClearMessage == [event |-> "clear"]

RECURSIVE MediaMessages(_)
MediaMessages(chunks) ==
    IF chunks = <<>> THEN <<>>
    ELSE <<MediaMessage(Head(chunks))>> \o MediaMessages(Tail(chunks))

\* ConversationContext.page_type: "landing" unless a page keyword replaces it.
PageType == "landing"

\* ConversationContext: the fields to_brief reads.
Context(n, pt, prefs, pats, notes, msgs) ==
    [niche |-> n, page_type |-> pt, preferences |-> prefs,
     patterns_discussed |-> pats, client_notes |-> notes, messages |-> msgs]

\* self.messages[-6:]
RecentTurns == 6
\* msg.get("content", "")[:200]
BriefTextLimit == 200

\* A text is a record; one that states its length in characters has a "len"
\* field.  content[:200] keeps the first 200 characters of a longer text.
Truncated(content) ==
    IF "len" \in DOMAIN content /\ content.len > BriefTextLimit
    THEN [content EXCEPT !.len = BriefTextLimit]
    ELSE content

FirstN(seq, n) == IF Len(seq) <= n THEN seq ELSE SubSeq(seq, 1, n)

\* seq[-n:]
LastN(seq, n) == IF Len(seq) <= n THEN seq ELSE SubSeq(seq, Len(seq) - n + 1, Len(seq))

\* The "  role: text" lines of to_brief, one per recent message.
TurnLines(recent) ==
    [i \in 1..Len(recent) |->
        [kind |-> "turn", role |-> recent[i].role, text |-> Truncated(recent[i].content)]]

\* to_brief: the parts it appends, in order; the brief is their join by "\n".
ToBrief(ctx) ==
    LET recent == LastN(ctx.messages, RecentTurns) IN
       (IF ctx.niche # "" THEN <<[kind |-> "niche", value |-> ctx.niche]>> ELSE <<>>)
    \o (IF ctx.page_type # "" THEN <<[kind |-> "page_type", value |-> ctx.page_type]>>
        ELSE <<>>)
    \o (IF ctx.preferences # <<>> THEN <<[kind |-> "preferences", list |-> ctx.preferences]>>
        ELSE <<>>)
    \o (IF ctx.patterns_discussed # <<>>
        THEN <<[kind |-> "patterns", list |-> ctx.patterns_discussed]>> ELSE <<>>)
    \o (IF ctx.client_notes # <<>> THEN <<[kind |-> "notes", list |-> ctx.client_notes]>>
        ELSE <<>>)
    \o (IF recent # <<>> THEN <<[kind |-> "recent_header"]>> \o TurnLines(recent)
        ELSE <<>>)

\* not brief.strip(): every part carries a label, so the join is blank only
\* when there is no part.
BriefIsEmpty(b) == b = <<>>

\* No brief was built yet.
NoBrief == <<[kind |-> "unbuilt"]>>

CallInit ==
    /\ state = "ringing"
    /\ pc = "recv"
    /\ in_hangup = FALSE
    /\ hangup_from = "none"
    /\ _is_playing = FALSE
    /\ _mark_counter = 0
    /\ messages = <<>>
    /\ _chat_history = <<>>
    /\ detected_language = "en"
    /\ _client_language = "en"
    /\ _client_name = ""
    /\ niche = ""
    /\ page_type = PageType
    /\ preferences = <<>>
    /\ patterns_discussed = <<>>
    /\ client_notes = <<>>
    /\ detected_lang = "en"
    /\ response = "none"
    /\ outbox = <<>>
    /\ hangups = 0
    /\ job_id = "none"
    /\ starts = 0
    /\ tts_lang = "none"
    /\ brief = NoBrief

bufVars == <<_buffer, _min_bytes, _max_bytes, _silence_chunks, _speech_detected>>
segGhost == <<seg_op, seg_ret, seg_run_loud>>
contextVars == <<messages, _chat_history, detected_language, _client_language,
                 _client_name, niche, page_type, preferences, patterns_discussed,
                 client_notes, detected_lang>>

\* event == "start": on_connect up to the await on the greeting synthesis,
\* or up to the exception _identify_caller lets through.
StartEvent(caller) ==
    /\ pc = "recv"
    /\ starts' = starts + 1
    /\ state' = "connected"
    /\ IF caller.kind = "mem_error"
       THEN /\ pc' = "error"
            /\ UNCHANGED <<contextVars>>
       ELSE LET name == IF caller.kind = "known" THEN caller.name ELSE _client_name
                lang == IF caller.kind = "known" THEN caller.language ELSE _client_language
                turn == Turn("assistant", Greeting(name, lang))
            IN  /\ _client_name' = name
                /\ _client_language' = lang
                /\ messages' = Append(messages, turn)
                /\ _chat_history' = Append(_chat_history, turn)
                /\ pc' = "greet_tts"
                /\ UNCHANGED <<detected_language, niche, page_type, preferences,
                               patterns_discussed, client_notes, detected_lang>>
    /\ UNCHANGED <<in_hangup, hangup_from, _is_playing, _mark_counter, response, outbox,
                   hangups, job_id, tts_lang, brief>>
    /\ UNCHANGED <<engineVars, segVars, scriptVars, utilVars, multiVars, memVars, audioVars>>

\* The greeting synthesis returns or raises; the loop sends the chunks and,
\* when there are any, the greeting_end mark.
GreetingSynthesized(tts) ==
    /\ pc = "greet_tts"
    /\ state' = "discussing"
    /\ pc' = "recv"
    /\ IF tts.ok
       THEN LET chunks == SplitMulaw(tts.bytes) IN
            /\ _is_playing' = TRUE
            /\ response' = IF chunks = <<>> THEN "empty" ELSE "chunks"
            /\ outbox' = IF chunks = <<>> THEN outbox
                         ELSE outbox \o MediaMessages(chunks)
                                     \o <<MarkMessage(MarkName("greeting_end", 0))>>
       ELSE /\ response' = "empty"
            /\ UNCHANGED <<_is_playing, outbox>>
    /\ tts_lang' = IF _client_language = "" THEN "en" ELSE _client_language
    /\ UNCHANGED <<in_hangup, hangup_from, _mark_counter, contextVars, hangups,
                   job_id, starts, brief>>
    /\ UNCHANGED <<engineVars, segVars, scriptVars, utilVars, multiVars, memVars, audioVars>>

OnMulawChunkBargeIn(frame) ==
    LET r == AddChunkResult(frame) IN
    /\ BufferBecomes(r)
    /\ IF r.ret = None
       THEN /\ response' = "none"
            /\ UNCHANGED pc
       ELSE /\ pc' = "stt"
            /\ UNCHANGED response

\* on_mulaw_chunk up to its first await: dropped while playing, else fed to
\* the AudioBuffer; an utterance enters _process_utterance.
OnMulawChunk(frame) ==
    IF _is_playing
    THEN /\ response' = "none"
         /\ UNCHANGED <<bufVars, pc>>
    ELSE LET r == AddChunkResult(frame) IN
         /\ BufferBecomes(r)
         /\ IF r.ret = None
            THEN /\ response' = "none"
                 /\ UNCHANGED pc
            ELSE /\ pc' = "stt"
                 /\ UNCHANGED response

MediaEventWhileProcessing(frame) ==
    /\ pc \in {"recv", "stt", "chat", "tts"}
    /\ _is_playing \/ Len(messages) + 2 <= MaxTurns
    /\ OnMulawChunk(frame)
    /\ UNCHANGED <<state, in_hangup, hangup_from, _is_playing, _mark_counter, contextVars,
                   outbox, hangups, job_id, starts, tts_lang, brief>>
    /\ UNCHANGED <<engineVars, segGhost, scriptVars, utilVars, multiVars, memVars, audioVars>>

\* event == "media" with a decodable payload.
MediaEvent(frame) ==
    /\ pc = "recv"
    /\ _is_playing \/ Len(messages) + 2 <= MaxTurns
    /\ OnMulawChunk(frame)
    /\ UNCHANGED <<state, in_hangup, hangup_from, _is_playing, _mark_counter, contextVars,
                   outbox, hangups, job_id, starts, tts_lang, brief>>
    /\ UNCHANGED <<engineVars, segGhost, scriptVars, utilVars, multiVars, memVars, audioVars>>

\* _process_utterance returns chunks: to on_hangup, which drops them, or to
\* the loop, which sends clear, the chunks and the response mark when the
\* list is not empty.
ProcessReturns(chunks, counter) ==
    /\ response' = IF chunks = <<>> THEN "empty" ELSE "chunks"
    /\ IF in_hangup
       THEN /\ pc' = "hangup_tail"
            /\ UNCHANGED outbox
       ELSE /\ pc' = "recv"
            /\ outbox' = IF chunks = <<>> THEN outbox
                         ELSE outbox \o <<ClearMessage>> \o MediaMessages(chunks)
                                     \o <<MarkMessage(MarkName("response", counter))>>

SeqHas(seq, x) == \E i \in 1..Len(seq) : seq[i] = x

UnusableOnlyOnError(stt) == stt = SttFailed

\* The two early returns of step 1: the except around transcribe(), and
\* not user_text.strip().
Unusable(stt) == stt = SttFailed \/ stt.kind = "blank"

\* Step 1-4 of _process_utterance: transcription, language switch, user turn,
\* context extraction, and the call of engine.chat.
Transcribed(stt) ==
    /\ pc = "stt"
    /\ IF stt = ProcessRaised
       THEN \* caught by the try of on_hangup, or by the loop's except Exception
            /\ pc' = IF in_hangup THEN "hangup_tail" ELSE "error"
            /\ UNCHANGED <<contextVars, engineVars, response, outbox>>
       ELSE IF Unusable(stt)
       THEN /\ ProcessReturns(<<>>, _mark_counter)
            /\ UNCHANGED <<contextVars, engineVars>>
       ELSE LET lang == DetectLanguage(stt)
                turn == Turn("user", stt)
            IN  /\ detected_lang' = lang
                /\ detected_language' = lang
                /\ _client_language' = IF lang # detected_language THEN lang
                                       ELSE _client_language
                /\ messages' = Append(messages, turn)
                /\ _chat_history' = Append(_chat_history, turn)
                /\ niche' = IF stt.niche_kw # "" THEN stt.niche_kw ELSE niche
                /\ page_type' = IF stt.page_kw # "" THEN stt.page_kw ELSE page_type
                /\ patterns_discussed' =
                       IF stt.pattern # "" /\ ~SeqHas(patterns_discussed, stt.pattern)
                       THEN Append(patterns_discussed, stt.pattern)
                       ELSE patterns_discussed
                /\ client_notes' = IF stt.long THEN Append(client_notes, Truncated(stt))
                                   ELSE client_notes
                /\ _client_name' = IF stt.name # "" THEN stt.name ELSE _client_name
                /\ ChatStart(lang)
                /\ pc' = "chat"
                /\ UNCHANGED <<preferences, response, outbox>>
    /\ UNCHANGED <<state, in_hangup, hangup_from, _is_playing, _mark_counter,
                   hangups, job_id, starts, tts_lang, brief>>
    /\ UNCHANGED <<segVars, scriptVars, utilVars, multiVars, memVars, audioVars>>

\* The engine's loop runs while _process_utterance awaits chat().
Reasoning ==
    /\ pc = "chat"
    /\ (ChatTry \/ ChatExhausted)
    /\ UNCHANGED <<callVars, segVars, scriptVars, utilVars, multiVars, memVars, audioVars>>

\* The assistant turn stored in context.messages only.
ReasonedSkipsHistory ==
    /\ pc = "chat"
    /\ chat_pc \in {"returned", "raised"}
    /\ LET text == IF chat_pc = "raised" THEN ReasoningFallback(detected_lang)
                   ELSE chat_result
       IN  messages' = Append(messages, Turn("assistant", text))
    /\ pc' = "tts"
    /\ chat_pc' = "idle"
    /\ chat_i' = 0
    /\ chat_calls' = <<>>
    /\ chat_outcomes' = <<>>
    /\ chat_result' = NoResult
    /\ UNCHANGED <<_providers, _active_provider, chat_hint, chat_system>>
    /\ UNCHANGED <<state, in_hangup, hangup_from, _is_playing, _mark_counter,
                   _chat_history, detected_language, _client_language, _client_name,
                   niche, page_type, preferences, patterns_discussed, client_notes,
                   detected_lang, response, outbox, hangups, job_id, starts,
                   tts_lang, brief>>
    /\ UNCHANGED <<segVars, scriptVars, utilVars, multiVars, memVars, audioVars>>

\* chat() is back (or raised): the assistant turn is stored and the reply
\* goes to synthesis.
Reasoned ==
    /\ pc = "chat"
    /\ chat_pc \in {"returned", "raised"}
    /\ LET text == IF chat_pc = "raised" THEN ReasoningFallback(detected_lang)
                   ELSE chat_result
           turn == Turn("assistant", text)
       IN  /\ messages' = Append(messages, turn)
           /\ _chat_history' = Append(_chat_history, turn)
    /\ pc' = "tts"
    /\ chat_pc' = "idle"
    /\ chat_i' = 0
    /\ chat_calls' = <<>>
    /\ chat_outcomes' = <<>>
    /\ chat_result' = NoResult
    /\ UNCHANGED <<_providers, _active_provider, chat_hint, chat_system>>
    /\ UNCHANGED <<state, in_hangup, hangup_from, _is_playing, _mark_counter,
                   detected_language, _client_language, _client_name, niche,
                   page_type, preferences, patterns_discussed, client_notes,
                   detected_lang, response, outbox, hangups, job_id, starts,
                   tts_lang, brief>>
    /\ UNCHANGED <<segVars, scriptVars, utilVars, multiVars, memVars, audioVars>>

TtsLanguageOfClient == IF _client_language = "" THEN "en" ELSE _client_language

\* lang_map.get(detected_lang, ENGLISH), detected_lang being the local of
\* this run of _process_utterance.
TtsLanguage == IF detected_lang \in {"en", "es", "hi"} THEN detected_lang ELSE "en"

ReplySynthesizedPlaysOnFailure(tts) ==
    /\ pc = "tts"
    /\ _is_playing' = TRUE
    /\ IF tts.ok
       THEN /\ _mark_counter' = _mark_counter + 1
            /\ ProcessReturns(SplitMulaw(tts.bytes), _mark_counter + 1)
       ELSE /\ ProcessReturns(<<>>, _mark_counter)
            /\ UNCHANGED _mark_counter
    /\ tts_lang' = TtsLanguage
    /\ UNCHANGED <<state, in_hangup, hangup_from, contextVars, hangups, job_id,
                   starts, brief>>
    /\ UNCHANGED <<engineVars, segVars, scriptVars, utilVars, multiVars, memVars, audioVars>>

\* Step 7 of _process_utterance: synthesis of the reply.
ReplySynthesized(tts) ==
    /\ pc = "tts"
    /\ IF tts.ok
       THEN /\ _is_playing' = TRUE
            /\ _mark_counter' = _mark_counter + 1
            /\ ProcessReturns(SplitMulaw(tts.bytes), _mark_counter + 1)
       ELSE /\ ProcessReturns(<<>>, _mark_counter)
            /\ UNCHANGED <<_is_playing, _mark_counter>>
    /\ tts_lang' = TtsLanguage
    /\ UNCHANGED <<state, in_hangup, hangup_from, contextVars, hangups, job_id,
                   starts, brief>>
    /\ UNCHANGED <<engineVars, segVars, scriptVars, utilVars, multiVars, memVars, audioVars>>

OnMarkReceivedKeepsPlaying == UNCHANGED _is_playing

\* on_mark_received
OnMarkReceived == _is_playing' = FALSE

\* event == "mark"
MarkEvent ==
    /\ pc = "recv"
    /\ OnMarkReceived
    /\ UNCHANGED <<state, pc, in_hangup, hangup_from, _mark_counter, contextVars,
                   response, outbox, hangups, job_id, starts, tts_lang, brief>>
    /\ UNCHANGED <<engineVars, segVars, scriptVars, utilVars, multiVars, memVars, audioVars>>

OnHangupSkipsFlush(from) ==
    /\ state' = "hangup"
    /\ hangups' = hangups + 1
    /\ hangup_from' = from
    /\ in_hangup' = TRUE
    /\ pc' = "hangup_tail"
    /\ UNCHANGED <<_is_playing, _mark_counter, contextVars, response, outbox, job_id,
                   starts, tts_lang, brief>>
    /\ UNCHANGED <<engineVars, segVars, scriptVars, utilVars, multiVars, memVars, audioVars>>

\* on_hangup up to its first await: HANGUP, then flush_remaining; remaining
\* audio enters _process_utterance.
OnHangup(from) ==
    LET r == FlushRemainingResult IN
    /\ state' = "hangup"
    /\ hangups' = hangups + 1
    /\ hangup_from' = from
    /\ BufferBecomes(r)
    /\ in_hangup' = TRUE
    /\ pc' = IF r.ret # None THEN "stt" ELSE "hangup_tail"
    /\ UNCHANGED <<_is_playing, _mark_counter, contextVars, response, outbox, job_id,
                   starts, tts_lang, brief>>
    /\ UNCHANGED <<engineVars, segGhost, scriptVars, utilVars, multiVars, memVars, audioVars>>

\* event == "stop"
StopEvent ==
    /\ pc = "recv"
    /\ OnHangup("stop")

\* receive_json raises WebSocketDisconnect.
Disconnect ==
    /\ pc = "recv"
    /\ OnHangup("disconnect")

\* event == "media" whose payload base64.b64decode rejects: the exception
\* reaches the loop's except Exception.
MalformedMediaEvent ==
    /\ pc = "recv"
    /\ OnHangup("error")

\* The except Exception branch of the loop after a handler raised.
HandlerRaised ==
    /\ pc = "error"
    /\ OnHangup("error")

\* self.context as to_brief sees it.
SessionContext ==
    Context(niche, page_type, preferences, patterns_discussed, client_notes, messages)

\* on_hangup after the flush: final facts (failures swallowed), the brief,
\* and either COMPLETE at once or TRIGGERING.
HangupTail ==
    /\ pc = "hangup_tail"
    /\ brief' = ToBrief(SessionContext)
    /\ IF BriefIsEmpty(brief')
       THEN /\ state' = "complete"
            /\ pc' = "closed"
       ELSE /\ state' = "triggering_agents"
            /\ pc' = "dispatch"
    /\ UNCHANGED <<in_hangup, hangup_from, _is_playing, _mark_counter, contextVars,
                   response, outbox, hangups, job_id, starts, tts_lang>>
    /\ UNCHANGED <<engineVars, segVars, scriptVars, utilVars, multiVars, memVars, audioVars>>

\* JobState.create / JobStore.save raise, or succeed and then the task queue
\* and the notifier each succeed or raise on their own.
DispatchOutcomes ==
    {[store |-> "raise", queue |-> "none", notify |-> "none"]}
    \cup {[store |-> "ok", queue |-> q, notify |-> n] : q, n \in {"ok", "raise"}}

DispatchedLeavesTriggering(outcome) ==
    /\ pc = "dispatch"
    /\ state' = IF outcome.store = "ok" THEN "complete" ELSE state
    /\ job_id' = IF outcome.store = "ok" THEN "job" ELSE "none"
    /\ pc' = "closed"
    /\ UNCHANGED <<in_hangup, hangup_from, _is_playing, _mark_counter, contextVars,
                   response, outbox, hangups, starts, tts_lang, brief>>
    /\ UNCHANGED <<engineVars, segVars, scriptVars, utilVars, multiVars, memVars, audioVars>>

\* The stop branch without its break: the loop receives again.
DispatchedWithoutBreak(outcome) ==
    /\ pc = "dispatch"
    /\ state' = "complete"
    /\ job_id' = IF outcome.store = "ok" THEN "job" ELSE "none"
    /\ pc' = "recv"
    /\ UNCHANGED <<in_hangup, hangup_from, _is_playing, _mark_counter, contextVars,
                   response, outbox, hangups, starts, tts_lang, brief>>
    /\ UNCHANGED <<engineVars, segVars, scriptVars, utilVars, multiVars, memVars, audioVars>>

\* The rest of on_hangup: the job is stored and the pipeline started, or the
\* failure is logged; the loop is left (break, or the end of an except branch).
Dispatched(outcome) ==
    /\ pc = "dispatch"
    /\ state' = "complete"
    /\ job_id' = IF outcome.store = "ok" THEN "job" ELSE "none"
    /\ pc' = "closed"
    /\ UNCHANGED <<in_hangup, hangup_from, _is_playing, _mark_counter, contextVars,
                   response, outbox, hangups, starts, tts_lang, brief>>
    /\ UNCHANGED <<engineVars, segVars, scriptVars, utilVars, multiVars, memVars, audioVars>>

\* The deployment the call server runs in: Anthropic key set, Ollama local.
CallServerKeys == {"anthropic"}

\* The reference event sequence has not started.
ScenIdle == scen = 0

\* No audio_utils function was called on its own.
NoValue == [kind |-> "none"]
UtilIdle == util_op = "none" /\ util_in = NoValue /\ util_out = NoValue

\* The server has no second connection open.
MultiIdle == managers = <<>> /\ audio_buffers = <<>>

\* The memory store is not looked at.
NoRow == <<>>
MemIdle == clients = NoRow /\ mem_call = <<>>

\* The content of the accumulator is not followed.
AudioIdle == seg_content = <<>> /\ seg_fed = <<>> /\ seg_out = <<>>

Init ==
    /\ EngineInit(CallServerKeys)
    /\ SegInit([min |-> DefaultMinBytes, max |-> DefaultMaxBytes])
    /\ ScriptIdle
    /\ CallInit
    /\ ScenIdle
    /\ UtilIdle
    /\ MultiIdle
    /\ MemIdle
    /\ AudioIdle

Next ==
    \/ (starts < MaxStarts /\ \E caller \in Callers : StartEvent(caller)) /\ UNCHANGED scen
    \/ (\E tts \in TtsOutcomes : GreetingSynthesized(tts)) /\ UNCHANGED scen
    \/ (\E f \in Frames : MediaEvent(f)) /\ UNCHANGED scen
    \/ (\E stt \in SttOutcomes : Transcribed(stt)) /\ UNCHANGED scen
    \/ Reasoning /\ UNCHANGED scen
    \/ Reasoned /\ UNCHANGED scen
    \/ (\E tts \in TtsOutcomes : ReplySynthesized(tts)) /\ UNCHANGED scen
    \/ MarkEvent /\ UNCHANGED scen
    \/ StopEvent /\ UNCHANGED scen
    \/ Disconnect /\ UNCHANGED scen
    \/ MalformedMediaEvent /\ UNCHANGED scen
    \/ HandlerRaised /\ UNCHANGED scen
    \/ HangupTail /\ UNCHANGED scen
    \/ (\E o \in DispatchOutcomes : Dispatched(o)) /\ UNCHANGED scen

Spec == Init /\ [][Next]_vars

\* The steps the connection's task takes on its own once an awaited call
\* returns or raises.
TaskSteps ==
    /\ \/ \E tts \in TtsOutcomes : GreetingSynthesized(tts)
       \/ \E stt \in SttOutcomes : Transcribed(stt)
       \/ Reasoning
       \/ Reasoned
       \/ \E tts \in TtsOutcomes : ReplySynthesized(tts)
       \/ HandlerRaised
       \/ HangupTail
       \/ \E o \in DispatchOutcomes : Dispatched(o)
    /\ UNCHANGED scen

\* SpecFair: Spec with every awaited external call returning or raising.
SpecFair == Init /\ [][Next]_vars /\ WF_vars(TaskSteps)

\* SpecRestart: Spec with the platform free to send start again on the same
\* connection.
MaxRestarts == 2

NextRestart ==
    \/ Next
    \/ (starts < MaxRestarts /\ \E caller \in Callers : StartEvent(caller)) /\ UNCHANGED scen

SpecRestart == Init /\ [][NextRestart]_vars

-----------------------------------------------------------------------------
(* SpecScenario: one call driven through the reference event sequence      *)
(* start, greeting synthesized, mark, complete utterance, reply            *)
(* synthesized, mark, stop, final processing done; scen counts the events  *)
(* of the sequence handled so far.  Frames that only buffer or are dropped *)
(* and the steps inside a handler leave scen alone.                        *)

ScenStart ==
    /\ scen = 0
    /\ \E caller \in Callers : StartEvent(caller)
    /\ pc' = "greet_tts"
    /\ scen' = 1

ScenGreeting ==
    /\ scen = 1
    /\ \E tts \in TtsOutcomes : tts.ok /\ GreetingSynthesized(tts)
    /\ scen' = 2

ScenMark ==
    /\ scen \in {2, 5}
    /\ MarkEvent
    /\ scen' = scen + 1

ScenFrame ==
    /\ scen \in {2, 3, 5, 6}
    /\ \E f \in Frames : MediaEvent(f)
    /\ pc' = "recv"
    /\ UNCHANGED scen

ScenUtterance ==
    /\ scen = 3
    /\ \E f \in Frames : MediaEvent(f)
    /\ pc' = "stt"
    /\ scen' = 4

ScenProcessing ==
    /\ scen = 4
    /\ \/ \E text \in UserTexts : Transcribed(text)
       \/ Reasoning
       \/ Reasoned
    /\ UNCHANGED scen

ScenReply ==
    /\ scen = 4
    /\ \E tts \in TtsOutcomes : tts.ok /\ ReplySynthesized(tts)
    /\ scen' = 5

ScenStop ==
    /\ scen = 6
    /\ StopEvent
    /\ scen' = 7

ScenFinalProcessing ==
    /\ scen = 7
    /\ \/ \E stt \in SttOutcomes : Transcribed(stt)
       \/ Reasoning
       \/ Reasoned
       \/ \E tts \in TtsOutcomes : ReplySynthesized(tts)
       \/ HangupTail
    /\ UNCHANGED scen

ScenDone ==
    /\ scen = 7
    /\ \E o \in DispatchOutcomes : Dispatched(o)
    /\ scen' = 8

NextScenario ==
    \/ ScenStart
    \/ ScenGreeting
    \/ ScenMark
    \/ ScenFrame
    \/ ScenUtterance
    \/ ScenProcessing
    \/ ScenReply
    \/ ScenStop
    \/ ScenFinalProcessing
    \/ ScenDone

SpecScenario == Init /\ [][NextScenario]_vars

-----------------------------------------------------------------------------
(* SpecChat: the engine alone, called again and again                      *)

InitChat ==
    /\ \E keys \in SUBSET KeyedProviders : EngineInit(keys)
    /\ SegInit([min |-> DefaultMinBytes, max |-> DefaultMaxBytes])
    /\ ScriptIdle
    /\ CallInit
    /\ ScenIdle
    /\ UtilIdle
    /\ MultiIdle
    /\ MemIdle
    /\ AudioIdle

NextChat ==
    \/ ChatCall /\ UNCHANGED <<segVars, scriptVars, callVars, scenVars, utilVars, multiVars, memVars, audioVars>>
    \/ ChatTry /\ UNCHANGED <<segVars, scriptVars, callVars, scenVars, utilVars, multiVars, memVars, audioVars>>
    \/ ChatExhausted /\ UNCHANGED <<segVars, scriptVars, callVars, scenVars, utilVars, multiVars, memVars, audioVars>>

SpecChat == InitChat /\ [][NextChat]_vars

-----------------------------------------------------------------------------
(* SpecSeg: one AudioBuffer, any frames, flush_remaining at any time       *)

SegAddChunk == \E f \in Frames : AddChunk(f)

InitSeg ==
    /\ EngineIdle
    /\ \E cfg \in BufferConfigs : SegInit(cfg)
    /\ ScriptIdle
    /\ CallInit
    /\ ScenIdle
    /\ UtilIdle
    /\ MultiIdle
    /\ MemIdle
    /\ AudioIdle

NextSeg ==
    \/ SegAddChunk /\ UNCHANGED <<engineVars, scriptVars, callVars, scenVars, utilVars, multiVars, memVars, audioVars>>
    \/ FlushRemaining /\ UNCHANGED <<engineVars, scriptVars, callVars, scenVars, utilVars, multiVars, memVars, audioVars>>

SpecSeg == InitSeg /\ [][NextSeg]_vars

-----------------------------------------------------------------------------
(* SpecAudio: the unit test's small AudioBuffer with its content followed. *)
(* _buffer is len(self._buffer); seg_content is the bytearray itself, one  *)
(* entry per frame.                                                        *)

MaxFed == 9

\* One silent and one loud frame.
AudioFrames == {Frame(255), Frame(0)}

FlushedAudioWithoutLast(content) == SubSeq(content, 1, Len(content) - 1)

\* _flush: audio = bytes(self._buffer)
FlushedAudio(content) == content

InitAudio ==
    /\ EngineIdle
    /\ SegInit([min |-> 160, max |-> 1000])
    /\ ScriptIdle
    /\ CallInit
    /\ ScenIdle
    /\ UtilIdle
    /\ MultiIdle
    /\ MemIdle
    /\ AudioIdle

\* add_chunk: extend, then either keep buffering or return the whole
\* accumulator and clear it.
AudioAddChunk(frame) ==
    LET extended == Append(seg_content, frame) IN
    /\ Len(seg_fed) < MaxFed
    /\ AddChunk(frame)
    /\ seg_fed' = Append(seg_fed, frame)
    /\ IF AddChunkResult(frame).ret = None
       THEN /\ seg_content' = extended
            /\ UNCHANGED seg_out
       ELSE /\ seg_content' = <<>>
            /\ seg_out' = Append(seg_out, FlushedAudio(extended))

\* flush_remaining
AudioFlushRemaining ==
    /\ FlushRemaining
    /\ IF FlushRemainingResult.ret = None
       THEN UNCHANGED <<seg_content, seg_out>>
       ELSE /\ seg_content' = <<>>
            /\ seg_out' = Append(seg_out, FlushedAudio(seg_content))
    /\ UNCHANGED seg_fed

NextAudio ==
    \/ (\E f \in AudioFrames : AudioAddChunk(f))
          /\ UNCHANGED <<engineVars, scriptVars, callVars, scenVars, utilVars,
                         multiVars, memVars>>
    \/ AudioFlushRemaining
          /\ UNCHANGED <<engineVars, scriptVars, callVars, scenVars, utilVars,
                         multiVars, memVars>>

SpecAudio == InitAudio /\ [][NextAudio]_vars

-----------------------------------------------------------------------------
(* SpecPayload: one AudioBuffer fed media payloads of any length           *)

\* Lengths of a decoded media payload: one 20 ms frame, a short one, and
\* two frames in one message.
PayloadLengths == {FrameSize, 100, 320}
Payloads == {[byte |-> b, len |-> n] : b \in {255, 0}, n \in PayloadLengths}

\* event == "media": the decoded payload goes to add_chunk as it is.
PayloadAddChunk == \E p \in Payloads : AddChunk(p)

InitPayload ==
    /\ EngineIdle
    /\ SegInit([min |-> 160, max |-> 1000])
    /\ ScriptIdle
    /\ CallInit
    /\ ScenIdle
    /\ UtilIdle
    /\ MultiIdle
    /\ MemIdle
    /\ AudioIdle

NextPayload ==
    \/ PayloadAddChunk /\ UNCHANGED <<engineVars, scriptVars, callVars, scenVars, utilVars, multiVars, memVars, audioVars>>
    \/ FlushRemaining /\ UNCHANGED <<engineVars, scriptVars, callVars, scenVars, utilVars, multiVars, memVars, audioVars>>

SpecPayload == InitPayload /\ [][NextPayload]_vars

-----------------------------------------------------------------------------
(* SpecFlush: 80 silent, 40 non-silent, 16 silent frames on the defaults   *)

SilentBytes == {b \in FrameBytes : IsSilent(Rms(Frame(b)))}
LoudBytes == FrameBytes \ SilentBytes

ScriptBytes(i) == IF i <= 80 THEN SilentBytes
                  ELSE IF i <= 120 THEN LoudBytes
                  ELSE SilentBytes

FeedScript ==
    /\ script_pos < 136
    /\ \E b \in ScriptBytes(script_pos + 1) : AddChunk(Frame(b))
    /\ script_pos' = script_pos + 1
    /\ flushes' = IF seg_ret' # None
                  THEN Append(flushes, [at |-> script_pos + 1, len |-> seg_ret'])
                  ELSE flushes
    /\ UNCHANGED <<engineVars, callVars, scenVars, utilVars, multiVars, memVars, audioVars>>

InitFlush ==
    /\ EngineIdle
    /\ SegInit([min |-> DefaultMinBytes, max |-> DefaultMaxBytes])
    /\ ScriptIdle
    /\ CallInit
    /\ ScenIdle
    /\ UtilIdle
    /\ MultiIdle
    /\ MemIdle
    /\ AudioIdle

NextFlush == FeedScript

SpecFlush == InitFlush /\ [][NextFlush]_vars

-----------------------------------------------------------------------------
(* SpecBrief: to_brief applied to a ConversationContext                    *)

\* Longest message list handed to to_brief.
MaxBriefTurns == 7

\* Lengths in characters of a message's content: short, exactly at the
\* limit of to_brief, and beyond it.
BriefTextLens == {5, 200, 250}

\* The content of the i-th message: a text of the given length, distinct
\* from the text of every other message.
BriefText(i, len) == [kind |-> "text", id |-> i, len |-> len]

\* A message list: the roles alternate from the greeting on.
BriefMessages(lens) ==
    [i \in 1..Len(lens) |->
        Turn(IF i % 2 = 1 THEN "assistant" ELSE "user", BriefText(i, lens[i]))]

BriefContexts ==
    {Context(n, pt, prefs, <<>>, <<>>, BriefMessages(lens)) :
        n \in {"", "ecommerce"},
        pt \in {"", "landing", "product"},
        prefs \in {<<>>, <<"dark">>},
        lens \in UNION {[1..k -> BriefTextLens] : k \in 0..MaxBriefTurns}}

InitBrief ==
    /\ EngineIdle
    /\ SegInit([min |-> DefaultMinBytes, max |-> DefaultMaxBytes])
    /\ ScriptIdle
    /\ ScenIdle
    /\ UtilIdle
    /\ MultiIdle
    /\ MemIdle
    /\ AudioIdle
    /\ \E ctx \in BriefContexts :
          /\ niche = ctx.niche
          /\ page_type = ctx.page_type
          /\ preferences = ctx.preferences
          /\ patterns_discussed = ctx.patterns_discussed
          /\ client_notes = ctx.client_notes
          /\ messages = ctx.messages
    /\ _chat_history = messages
    /\ state = "ringing"
    /\ pc = "recv"
    /\ in_hangup = FALSE
    /\ hangup_from = "none"
    /\ _is_playing = FALSE
    /\ _mark_counter = 0
    /\ detected_language = "en"
    /\ _client_language = "en"
    /\ _client_name = ""
    /\ detected_lang = "en"
    /\ response = "none"
    /\ outbox = <<>>
    /\ hangups = 0
    /\ job_id = "none"
    /\ starts = 0
    /\ tts_lang = "none"
    /\ brief = NoBrief

\* brief = context.to_brief()
BuildBrief ==
    /\ brief = NoBrief
    /\ brief' = ToBrief(SessionContext)
    /\ UNCHANGED <<state, pc, in_hangup, hangup_from, _is_playing, _mark_counter,
                   contextVars, response, outbox, hangups, job_id, starts, tts_lang>>
    /\ UNCHANGED <<engineVars, segVars, scriptVars, scenVars, utilVars, multiVars, memVars, audioVars>>

NextBrief == BuildBrief

SpecBrief == InitBrief /\ [][NextBrief]_vars

-----------------------------------------------------------------------------
(* SpecCodec: mulaw_decode, then mulaw_encode, on every companded byte     *)

CompandedBytes == 0..255

InitCodec ==
    /\ EngineIdle
    /\ SegInit([min |-> DefaultMinBytes, max |-> DefaultMaxBytes])
    /\ ScriptIdle
    /\ CallInit
    /\ scen = 0
    /\ util_op = "none"
    /\ util_in \in {[kind |-> "ulaw", byte |-> b] : b \in CompandedBytes}
    /\ util_out = NoValue
    /\ MultiIdle
    /\ MemIdle
    /\ AudioIdle

\* mulaw_decode of the one-byte buffer
UtilMulawDecode ==
    /\ util_op = "none"
    /\ util_op' = "mulaw_decode"
    /\ util_out' = [kind |-> "pcm", sample |-> MulawDecodeByte(util_in.byte)]
    /\ UNCHANGED util_in
    /\ UNCHANGED <<engineVars, segVars, scriptVars, callVars, scenVars, multiVars, memVars, audioVars>>

\* mulaw_encode of what mulaw_decode returned
UtilMulawEncode ==
    /\ util_op = "mulaw_decode"
    /\ util_op' = "mulaw_encode"
    /\ util_out' = [kind |-> "ulaw", byte |-> MulawEncodeSample(util_out.sample)]
    /\ UNCHANGED util_in
    /\ UNCHANGED <<engineVars, segVars, scriptVars, callVars, scenVars, multiVars, memVars, audioVars>>

NextCodec ==
    \/ UtilMulawDecode
    \/ UtilMulawEncode

SpecCodec == InitCodec /\ [][NextCodec]_vars

-----------------------------------------------------------------------------
(* SpecResample: the three resamplers on short PCM buffers                 *)

\* Longest PCM buffer, in samples.
MaxSamples == 4

SampleValues == {-3, 0, 4}
\* 8 kHz and 16 kHz, the 22050 Hz default of pcm_to_mulaw_8k, 44100 Hz, and
\* a rate that is not positive.
SourceRates == {8000, 16000, 22050, 44100, 0}

PcmBuffers ==
    {Pcm(samples, odd) :
        samples \in UNION {[1..n -> SampleValues] : n \in 0..MaxSamples},
        odd \in BOOLEAN}

InitResample ==
    /\ EngineIdle
    /\ SegInit([min |-> DefaultMinBytes, max |-> DefaultMaxBytes])
    /\ ScriptIdle
    /\ CallInit
    /\ scen = 0
    /\ util_op = "none"
    /\ util_in \in {[pcm |-> pcm, rate |-> rate] : pcm \in PcmBuffers, rate \in SourceRates}
    /\ util_out = NoValue
    /\ MultiIdle
    /\ MemIdle
    /\ AudioIdle

\* resample_8k_to_16k(pcm_8k) on a whole number of samples
UtilResampleUp ==
    /\ util_op = "none"
    /\ util_in.rate = 8000
    /\ ~util_in.pcm.odd
    /\ util_op' = "resample_8k_to_16k"
    /\ util_out' = Pcm(ResampleUp(util_in.pcm.samples), FALSE)
    /\ UNCHANGED util_in
    /\ UNCHANGED <<engineVars, segVars, scriptVars, callVars, scenVars, multiVars, memVars, audioVars>>

\* resample_16k_to_8k(pcm_16k) on a whole number of samples
UtilResampleDown ==
    /\ util_op = "none"
    /\ util_in.rate = 16000
    /\ ~util_in.pcm.odd
    /\ util_op' = "resample_16k_to_8k"
    /\ util_out' = Pcm(ResampleDown(util_in.pcm.samples), FALSE)
    /\ UNCHANGED util_in
    /\ UNCHANGED <<engineVars, segVars, scriptVars, callVars, scenVars, multiVars, memVars, audioVars>>

\* resample_to_8k(pcm_data, source_rate)
UtilResampleTo8k ==
    /\ util_op = "none"
    /\ util_op' = "resample_to_8k"
    /\ util_out' = ResampleTo8k(util_in.pcm, util_in.rate)
    /\ UNCHANGED util_in
    /\ UNCHANGED <<engineVars, segVars, scriptVars, callVars, scenVars, multiVars, memVars, audioVars>>

NextResample ==
    \/ UtilResampleUp
    \/ UtilResampleDown
    \/ UtilResampleTo8k

SpecResample == InitResample /\ [][NextResample]_vars

-----------------------------------------------------------------------------
(* Several calls at once (SpecCalls).                                      *)
(* twilio_media_stream runs once per WebSocket connection and builds its   *)
(* own VoiceCallManager; the manager builds its own ConversationContext    *)
(* and, on first use, its own AudioBuffer.  The handlers of different      *)
(* connections interleave at every await.  A frame is recorded as the      *)
(* connection it arrived on, so that an utterance shows where its audio    *)
(* came from.                                                              *)

MaxCalls == 2

MaxCallFrames == 2

CallIds == 1..MaxCalls

\* A single AudioBuffer kept at module level, the way the voice service,
\* the reasoning engine and the memory store are kept.
AudioBufferOfModule(c) == 1

\* _get_audio_buffer: self._audio_buffer, an attribute of the manager.
AudioBufferOf(c) == c

\* VoiceCallManager.__init__
NewManager ==
    [state       |-> "ringing",
     _is_playing |-> FALSE,
     messages    |-> <<>>,
     utterance   |-> <<>>,
     received    |-> 0,
     pc          |-> "recv"]

CallTurn(role, c) == [role |-> role, call |-> c]

InitCalls ==
    /\ EngineIdle
    /\ SegInit([min |-> DefaultMinBytes, max |-> DefaultMaxBytes])
    /\ ScriptIdle
    /\ CallInit
    /\ ScenIdle
    /\ UtilIdle
    /\ managers = [c \in CallIds |-> NewManager]
    /\ audio_buffers = [c \in CallIds |-> <<>>]
    /\ MemIdle
    /\ AudioIdle

\* "start": on_connect greets the caller and the greeting starts playing.
CallStart(c) ==
    /\ managers[c].pc = "recv"
    /\ managers[c].state = "ringing"
    /\ managers' = [managers EXCEPT
           ![c].state = "discussing",
           ![c]._is_playing = TRUE,
           ![c].messages = Append(@, CallTurn("assistant", c))]
    /\ UNCHANGED audio_buffers

\* "mark": playback finished.
CallMark(c) ==
    /\ managers[c].pc = "recv"
    /\ managers[c]._is_playing
    /\ managers' = [managers EXCEPT ![c]._is_playing = FALSE]
    /\ UNCHANGED audio_buffers

\* "media": on_mulaw_chunk drops the frame during playback and otherwise
\* adds it to the manager's buffer.
CallMedia(c) ==
    /\ managers[c].pc = "recv"
    /\ managers[c].received < MaxCallFrames
    /\ managers' = [managers EXCEPT ![c].received = @ + 1]
    /\ IF managers[c]._is_playing
       THEN UNCHANGED audio_buffers
       ELSE audio_buffers' = [audio_buffers EXCEPT
                ![AudioBufferOf(c)] = Append(@, c)]

\* "stop": on_hangup flushes what the buffer still holds, when it is more
\* than one frame, and hands it to _process_utterance.
CallStop(c) ==
    /\ managers[c].pc = "recv"
    /\ LET buf == audio_buffers[AudioBufferOf(c)]
       IN  IF Len(buf) * FrameSize > FlushRemainingThreshold
           THEN /\ managers' = [managers EXCEPT
                       ![c].state = "hangup",
                       ![c].utterance = buf,
                       ![c].pc = "stt"]
                /\ audio_buffers' = [audio_buffers EXCEPT
                       ![AudioBufferOf(c)] = <<>>]
           ELSE /\ managers' = [managers EXCEPT
                       ![c].state = "hangup",
                       ![c].pc = "tail"]
                /\ UNCHANGED audio_buffers

\* _process_utterance on the flushed audio: a usable transcript adds the
\* caller's turn and the reply, anything else adds nothing.
CallProcessed(c) ==
    /\ managers[c].pc = "stt"
    /\ \E usable \in BOOLEAN :
          managers' = [managers EXCEPT
              ![c].messages = IF usable
                              THEN @ \o <<CallTurn("user", c),
                                          CallTurn("assistant", c)>>
                              ELSE @,
              ![c]._is_playing = IF usable THEN TRUE ELSE @,
              ![c].pc = "tail"]
    /\ UNCHANGED audio_buffers

\* The rest of on_hangup: an empty brief completes the call at once,
\* otherwise the pipeline is triggered first.
CallDispatch(c) ==
    /\ managers[c].pc = "tail"
    /\ managers[c].messages # <<>>
    /\ managers' = [managers EXCEPT
           ![c].state = "triggering_agents",
           ![c].pc = "dispatch"]
    /\ UNCHANGED audio_buffers

CallDone(c) ==
    /\ \/ managers[c].pc = "dispatch"
       \/ managers[c].pc = "tail" /\ managers[c].messages = <<>>
    /\ managers' = [managers EXCEPT
           ![c].state = "complete",
           ![c].pc = "closed"]
    /\ UNCHANGED audio_buffers

CallEvent(c) ==
    \/ CallStart(c)
    \/ CallMark(c)
    \/ CallMedia(c)
    \/ CallStop(c)
    \/ CallProcessed(c)
    \/ CallDispatch(c)
    \/ CallDone(c)

NextCalls ==
    \E c \in CallIds :
        /\ CallEvent(c)
        /\ UNCHANGED <<engineVars, segVars, scriptVars, callVars, scenVars,
                       utilVars, memVars, audioVars>>

SpecCalls == InitCalls /\ [][NextCalls]_vars

-----------------------------------------------------------------------------
(* The clients table of the memory store (SpecMemory).                     *)
(* remember_client is one INSERT ... ON CONFLICT(client_id) DO UPDATE; the *)
(* model follows the row of one client_id through the calls the session    *)
(* makes.  A call is written as the keyword arguments its caller passes.   *)

ClientFields == {"name", "phone", "email", "language", "niche", "company"}

\* The defaults of remember_client's parameters; name has none.
RememberClientDefaults ==
    [name |-> "", phone |-> "", email |-> "", language |-> "en",
     niche |-> "", company |-> ""]

\* The values the statement is executed with.
Excluded(args) ==
    [f \in ClientFields |->
        IF f \in DOMAIN args THEN args[f] ELSE RememberClientDefaults[f]]

\* COALESCE(NULLIF(excluded.f, ''), clients.f) for every column.
Upsert(row, args) ==
    IF row = NoRow THEN Excluded(args)
    ELSE [f \in ClientFields |->
             IF Excluded(args)[f] # "" THEN Excluded(args)[f] ELSE row[f]]

ClientNames == {"", "Ana"}

\* The calls of voice_call.py: a new caller's record, a language switch,
\* a self-introduced name, a company, a niche.
RememberCalls ==
    {[name |-> "", phone |-> "+52"]}
    \cup {[name |-> n, language |-> l] : n \in ClientNames, l \in {"en", "es", "hi"}}
    \cup {[name |-> "Ana"]}
    \cup {[name |-> n, company |-> "Acme"] : n \in ClientNames}
    \cup {[name |-> n, niche |-> k] : n \in ClientNames, k \in {"saas", "ecommerce"}}

InitMemory ==
    /\ EngineIdle
    /\ SegInit([min |-> DefaultMinBytes, max |-> DefaultMaxBytes])
    /\ ScriptIdle
    /\ CallInit
    /\ ScenIdle
    /\ UtilIdle
    /\ MultiIdle
    /\ clients = NoRow
    /\ mem_call = <<>>
    /\ AudioIdle

RememberClient(args) ==
    /\ mem_call' = args
    /\ clients' = Upsert(clients, args)

NextMemory ==
    /\ \E args \in RememberCalls : RememberClient(args)
    /\ UNCHANGED <<engineVars, segVars, scriptVars, callVars, scenVars,
                   utilVars, multiVars, audioVars>>

SpecMemory == InitMemory /\ [][NextMemory]_vars

-----------------------------------------------------------------------------
(* Properties of the reasoning engine (SpecChat)                           *)

ChatReturned == chat_pc = "returned"

ListOrderPrefix(calls) ==
    /\ Len(calls) <= Len(_providers)
    /\ \A j \in 1..Len(calls) : calls[j] = _providers[j].provider

\* C1: chat() calls the providers strictly in list order; the first call that
\* succeeds ends the loop: its text is the result, its provider is recorded
\* as active, and no provider after it is called.
C1_FirstSuccessInOrder ==
    /\ ListOrderPrefix(chat_calls)
    /\ Len(chat_outcomes) = Len(chat_calls)
    /\ \A j \in 1..Len(chat_outcomes) :
          chat_outcomes[j] = "ok" =>
             /\ j = Len(chat_outcomes)
             /\ ChatReturned
             /\ chat_result = [kind |-> "text", by |-> _providers[j].provider]
             /\ _active_provider = _providers[j].provider
    /\ (ChatReturned /\ chat_result.kind = "text") =>
          /\ chat_calls # <<>>
          /\ chat_outcomes[Len(chat_outcomes)] = "ok"

\* Providers 1 and 2 raised, provider 3 succeeded and is what chat() returned.
C1_Witness ==
    /\ ChatReturned
    /\ Len(_providers) > 3
    /\ Len(chat_outcomes) = 3
    /\ chat_outcomes[1] \in FailureKinds
    /\ chat_outcomes[2] \in FailureKinds
    /\ chat_outcomes[3] = "ok"
    /\ chat_result = [kind |-> "text", by |-> _providers[3].provider]
    /\ _active_provider = _providers[3].provider

\* C2: chat() never lets a provider failure escape; when no provider call
\* succeeded it has called every provider and returns the apology string.
C2_NeverRaises ==
    /\ chat_pc # "raised"
    /\ (ChatReturned /\ \A j \in 1..Len(chat_outcomes) : chat_outcomes[j] # "ok") =>
          /\ chat_result.kind = "apology"
          /\ Len(chat_calls) = Len(_providers)

\* Every provider raised, one of each failure kind, and chat() returned.
C2_Witness ==
    /\ ChatReturned
    /\ Len(_providers) = 5
    /\ {chat_outcomes[j] : j \in 1..Len(chat_outcomes)} = FailureKinds
    /\ chat_result.kind = "apology"

\* C3: when every provider fails, the returned phrase is in the language
\* named by language_hint (en, es or hi).
C3_ApologyInHintLanguage ==
    (ChatReturned /\ chat_result.kind = "apology" /\ chat_hint \in {"en", "es", "hi"}) =>
        chat_result.lang = chat_hint

-----------------------------------------------------------------------------
(* Properties of the segmenter (SpecSeg, SpecFlush)                        *)

IsDefaultConfig == _min_bytes = 8000 /\ _max_bytes = 64000

\* What add_chunk must do with frame f from the current state.
AddChunkExpected(f) ==
    LET len1 == _buffer + f.len
        sil  == Rms(f) < 500
        run1 == IF sil THEN _silence_chunks + 1 ELSE 0
        sp1  == _speech_detected \/ ~sil
        due  == \/ len1 >= _max_bytes
                \/ (len1 >= _min_bytes /\ sp1 /\ run1 >= 15)
    IN  IF due
        THEN /\ seg_ret' = len1
             /\ _buffer' = 0
             /\ _silence_chunks' = 0
             /\ _speech_detected' = FALSE
        ELSE /\ seg_ret' = None
             /\ _buffer' = len1
             /\ _silence_chunks' = run1
             /\ _speech_detected' = sp1

\* C4: add_chunk returns the accumulated buffer and resets the accumulator,
\* the silence run and the speech flag exactly when, after appending the
\* frame and updating the counters, length >= max_bytes or (length >=
\* min_bytes and speech was detected and the silence run is >= 15);
\* otherwise it returns nothing and keeps buffering.
C4_FlushIff == [][\A f \in Frames : AddChunk(f) => AddChunkExpected(f)]_vars

\* add_chunk just returned an utterance on trailing silence, below the cap.
C4_Witness ==
    /\ seg_op = "add_chunk"
    /\ seg_ret # None
    /\ seg_ret >= _min_bytes
    /\ seg_ret < _max_bytes
    /\ IsDefaultConfig

\* C5: 80 silent, 40 non-silent and 16 silent frames on the default bounds
\* make add_chunk return exactly one utterance, on the 15th trailing silent
\* frame (frame 135), of length >= min_bytes.
C5_ScriptFlushesOnce ==
    /\ \A k \in 1..Len(flushes) :
          /\ flushes[k].at = 135
          /\ flushes[k].len >= _min_bytes
    /\ Len(flushes) <= 1
    /\ script_pos >= 135 => Len(flushes) = 1

\* The whole script was fed and one utterance came out.
C5_Witness ==
    /\ script_pos = 136
    /\ Len(flushes) = 1
    /\ flushes[1].at = 135

\* C6: frames of continuous signal fed to an empty segmenter are flushed
\* exactly by the frame that brings the accumulator to max_bytes (frame
\* max_bytes/160 on the default bounds), and the accumulator is below
\* max_bytes after every add_chunk.
C6_CapFlush ==
    /\ _buffer < _max_bytes
    /\ (seg_op = "add_chunk" /\ seg_run_loud /\ seg_ret # None) =>
          /\ seg_ret >= _max_bytes
          /\ seg_ret - 160 < _max_bytes
          /\ IsDefaultConfig => seg_ret = 160 * (_max_bytes \div 160)

\* 400 frames of signal were fed and the 400th returned all 64000 bytes.
C6_Witness ==
    /\ seg_op = "add_chunk"
    /\ seg_run_loud
    /\ seg_ret = 64000
    /\ _buffer = 0

\* C7 as stated: every utterance the segmenter hands out, by add_chunk or by
\* flush_remaining, has a length within [min_bytes, max_bytes].
C7_EveryUtteranceInBounds ==
    seg_ret # None => (seg_ret >= _min_bytes /\ seg_ret <= _max_bytes)

\* C7 amended: on the default bounds with 160-byte frames, an utterance
\* returned by add_chunk has a length within [min_bytes, max_bytes], and one
\* returned by flush_remaining is longer than 160 bytes and shorter than
\* max_bytes (it can be shorter than min_bytes).
C7_UtteranceBoundsByOrigin ==
    (IsDefaultConfig /\ seg_ret # None) =>
        /\ seg_op = "add_chunk" => (seg_ret >= _min_bytes /\ seg_ret <= _max_bytes)
        /\ seg_op = "flush_remaining" => (seg_ret > 160 /\ seg_ret < _max_bytes)

\* flush_remaining returned an utterance shorter than min_bytes.
C7_Witness ==
    /\ IsDefaultConfig
    /\ seg_op = "flush_remaining"
    /\ seg_ret # None
    /\ seg_ret < _min_bytes

-----------------------------------------------------------------------------
(* Properties of the call session (Spec, SpecScenario)                     *)

\* What a session is doing, read off the fields the code keeps: CallState,
\* with "discussing" told apart by the playing flag and by whether the task
\* is inside _process_utterance.
Phase ==
    IF state = "ringing" THEN "Ringing"
    ELSE IF state = "connected" THEN "Connected"
    ELSE IF state \in {"hangup", "triggering_agents"} THEN "HangingUp"
    ELSE IF state = "complete" THEN "Complete"
    ELSE IF _is_playing THEN "Speaking"
    ELSE IF pc \in {"stt", "chat", "tts"} THEN "Processing"
    ELSE "AwaitingInput"

\* The value of CallState under the names of the section 4.4 table;
\* "discussing" is the one value the table has no row for.
StateName ==
    IF state = "ringing" THEN "Ringing"
    ELSE IF state = "connected" THEN "Connected"
    ELSE IF state \in {"hangup", "triggering_agents"} THEN "HangingUp"
    ELSE IF state = "complete" THEN "Complete"
    ELSE "Discussing"

ExpectedPhase == <<"Connected", "Speaking", "AwaitingInput", "Processing",
                   "Speaking", "AwaitingInput", "HangingUp", "Complete">>

ExpectedState == <<{"connected"}, {"discussing"}, {"discussing"}, {"discussing"},
                   {"discussing"}, {"discussing"}, {"hangup", "triggering_agents"},
                   {"complete"}>>

C10_NoBargeIn ==
    [][\A f \in Frames :
          (_is_playing /\ MediaEvent(f)) =>
              /\ response' = "none"
              /\ pc' = "recv"
              /\ UNCHANGED <<_buffer, _silence_chunks, _speech_detected,
                             messages, _chat_history, state>>]_vars

\* A frame was just dropped during the playback of a reply.
C10_Witness ==
    /\ _is_playing
    /\ pc = "recv"
    /\ response = "none"
    /\ state = "discussing"
    /\ _mark_counter > 0

-----------------------------------------------------------------------------
(* Hangup                                                                  *)

\* C11: whatever the call state, handling stop sets the state to hangup, and
\* when the accumulator holds more than 160 bytes it is emptied and its
\* content enters _process_utterance; the state becomes complete only from
\* the tail of on_hangup, after that processing.
C11_StopFlushesAndProcesses ==
    [][/\ StopEvent =>
            /\ state' = "hangup"
            /\ _buffer > FlushRemainingThreshold =>
                   (pc' = "stt" /\ in_hangup' /\ _buffer' = 0)
       /\ (state # "complete" /\ state' = "complete") =>
            pc \in {"hangup_tail", "dispatch"}]_vars

\* Stop arrived with audio in the accumulator, which is now being processed.
C11_Witness ==
    /\ state = "hangup"
    /\ hangup_from = "stop"
    /\ in_hangup
    /\ pc = "stt"
    /\ _buffer = 0

\* C12: every execution of on_hangup ends with the call state complete,
\* whichever of the STT, reasoning, TTS, memory, job-store, task-queue and
\* notification calls fail; and the task never closes in another state.
C12_HangupCompletes ==
    /\ [](pc = "closed" => state = "complete")
    /\ (hangups > 0) ~> (state = "complete")

\* on_hangup completed although the final utterance was processed and the
\* job store raised.
C12_Witness ==
    /\ state = "complete"
    /\ pc = "closed"
    /\ hangups = 1
    /\ response = "empty"
    /\ job_id = "none"
    /\ BriefIsEmpty(brief) = FALSE

-----------------------------------------------------------------------------
(* Failures inside a turn                                                  *)

\* C13: when the transcription fails or yields a blank text, the turn is
\* discarded: no turn is appended, the reasoning engine and the synthesis are
\* not called, nothing is sent, the playing flag and the mark counter keep
\* their values, and outside on_hangup the loop is back at receiving with the
\* playing flag clear.
C13_UnusableTranscriptDiscarded ==
    [][\A stt \in {SttFailed, SttBlank} :
          Transcribed(stt) =>
              /\ UNCHANGED <<messages, _chat_history, outbox, _is_playing, _mark_counter>>
              /\ UNCHANGED <<engineVars, tts_lang, state>>
              /\ pc' \notin {"chat", "tts"}
              /\ ~in_hangup => (pc' = "recv" /\ ~_is_playing')]_vars

\* The greeting was played, then an utterance was transcribed to nothing
\* usable: the history still holds the greeting alone.
C13_Witness ==
    /\ pc = "recv"
    /\ state = "discussing"
    /\ response = "empty"
    /\ outbox # <<>>
    /\ Len(messages) = 1
    /\ ~_is_playing
    /\ _mark_counter = 0

\* C14: when the synthesis of the greeting or of a reply fails, nothing is
\* sent, the playing flag and the mark counter are not touched, the text turn
\* is in the history as its last entry, and the session goes on receiving.
C14_TtsFailureKeepsTurn ==
    [][\A tts \in TtsOutcomes :
          ~tts.ok =>
              /\ ReplySynthesized(tts) =>
                    /\ UNCHANGED <<_is_playing, _mark_counter, outbox, messages, state>>
                    /\ Len(messages) > 0
                    /\ messages[Len(messages)].role = "assistant"
                    /\ ~in_hangup => (pc' = "recv" /\ ~_is_playing')
              /\ GreetingSynthesized(tts) =>
                    /\ UNCHANGED <<_is_playing, _mark_counter, outbox, messages>>
                    /\ Len(messages) > 0
                    /\ messages[Len(messages)].content.kind = "greeting"
                    /\ pc' = "recv"
                    /\ state' = "discussing"]_vars

\* A reply was reasoned and stored, its synthesis failed (the mark counter
\* was never incremented), and the session is receiving again.
C14_Witness ==
    /\ pc = "recv"
    /\ ~in_hangup
    /\ response = "empty"
    /\ ~_is_playing
    /\ _mark_counter = 0
    /\ Len(messages) >= 2
    /\ messages[Len(messages)].role = "assistant"
    /\ messages[Len(messages) - 1].role = "user"

\* C15: a memory-store failure at any point, the caller lookup at call start
\* included, is swallowed: the greeting is still produced and the session
\* does not end the call.
C15_MemoryFailureSwallowed ==
    [][\A caller \in Callers :
          (caller.kind = "mem_error" /\ StartEvent(caller)) =>
              /\ pc' = "greet_tts"
              /\ Len(messages') = Len(messages) + 1]_vars

\* C16: a media frame whose payload cannot be decoded aborts only that
\* frame: the session is not torn down and goes on receiving.
C16_MalformedFrameOnlyDropped ==
    [][MalformedMediaEvent =>
          /\ pc' = "recv"
          /\ UNCHANGED <<state, hangups, in_hangup>>]_vars

-----------------------------------------------------------------------------
(* Dispatch at hangup                                                      *)

NoUserTurn == \A i \in 1..Len(messages) : messages[i].role # "user"

\* C17: a call that ends with no user utterance transcribed and no topic or
\* preference extracted has an empty brief, creates no job, and on_hangup
\* returns no job id.
C17_NoJobWithoutContent ==
    (/\ state = "complete"
     /\ NoUserTurn
     /\ niche = ""
     /\ preferences = <<>>
     /\ patterns_discussed = <<>>
     /\ client_notes = <<>>)
    => (BriefIsEmpty(brief) /\ job_id = "none")

\* C20: every media message sent to the transport carries exactly ChunkSize
\* bytes, whatever the length of the synthesized audio.
C20_OutboundChunksAre640 ==
    \A i \in 1..Len(outbox) :
        outbox[i].event = "media" => outbox[i].len = ChunkSize

-----------------------------------------------------------------------------
(* Language                                                                *)

\* C19: each utterance is classified on its own text: the language_hint
\* handed to the reasoning engine for the turn, and the language its reply
\* is synthesized in, are the language detected for that utterance, whatever
\* the stored or previous language.
C19_LanguagePerUtterance ==
    [][/\ \A stt \in UserTexts :
              Transcribed(stt) => chat_hint' = DetectLanguage(stt)
       /\ \A tts \in TtsOutcomes :
              ReplySynthesized(tts) =>
                  /\ Len(messages) >= 2
                  /\ messages[Len(messages) - 1].role = "user"
                  /\ tts_lang' = DetectLanguage(messages[Len(messages) - 1].content)]_vars

\* A caller stored with Spanish spoke English: the turn's hint and the
\* reply's synthesis are English.
C19_Witness ==
    /\ pc = "recv"
    /\ _client_language = "es"
    /\ Len(messages) >= 2
    /\ messages[Len(messages)].role = "assistant"
    /\ messages[Len(messages) - 1].role = "user"
    /\ DetectLanguage(messages[Len(messages) - 1].content) = "en"
    /\ chat_hint = "en"
    /\ tts_lang = "en"

-----------------------------------------------------------------------------
(* The brief (SpecBrief)                                                   *)

BriefTurnLines == SelectSeq(brief, LAMBDA part : part.kind = "turn")
BriefHas(kind, value) ==
    \E i \in 1..Len(brief) : brief[i].kind = kind /\ brief[i].value = value
ShownTurns == IF Len(messages) < 6 THEN Len(messages) ELSE 6

-----------------------------------------------------------------------------
(* The codec (SpecCodec)                                                   *)

\* C22: for each of the 256 companded bytes, the entry the table builder
\* computes from bias, complement, sign bit, exponent and mantissa is the
\* entry of the G.711 mu-law reference table.
C22_DecodeTableIsReference ==
    util_op = "mulaw_decode" =>
        util_out.sample = Ulaw2LinTable[util_in.byte + 1]

\* The decoder ran on byte 0x00, the most negative level.
C22_Witness ==
    /\ util_op = "mulaw_decode"
    /\ util_in.byte = 0
    /\ util_out.sample = -32124

\* Position of a code on the quantization scale, from -128 (byte 0x00, the
\* most negative level) through -1 (0x7F, negative zero) and 0 (0xFF,
\* positive zero) to 127 (0x80, the most positive level).
QuantLevel(b) == IF b >= 128 THEN 255 - b ELSE b - 128

\* C23: for every companded byte b, encoding the decoded sample gives b or
\* a code next to b on the quantization scale.
C23_RoundTripWithinOneCode ==
    util_op = "mulaw_encode" =>
        Abs(QuantLevel(util_out.byte) - QuantLevel(util_in.byte)) <= 1

\* The one byte the round trip does not reproduce: negative zero 0x7F comes
\* back as positive zero 0xFF, its neighbour on the scale.
C23_Witness ==
    /\ util_op = "mulaw_encode"
    /\ util_in.byte = 127
    /\ util_out.byte = 255

-----------------------------------------------------------------------------
(* The provider list (SpecChat)                                            *)

\* C26: the provider list is what the constructor loaded and no step of any
\* chat() call, successful or failing, changes its content or its order.
C26_ProviderListIsStatic ==
    [][_providers' = _providers]_vars

\* A chat() went through a list of at least three providers, every one
\* failing, and the list is still complete and in its order.
C26_Witness ==
    /\ chat_pc = "returned"
    /\ chat_result = Apology(chat_hint)
    /\ Len(_providers) >= 3
    /\ Len(chat_calls) = Len(_providers)
    /\ \A i \in 1..Len(_providers) :
          _providers[i].enabled /\ chat_calls[i] = _providers[i].provider

-----------------------------------------------------------------------------
(* The resamplers (SpecResample)                                           *)

\* C24: from n samples, 8 kHz to 16 kHz gives between 2n-1 and 2n+1 samples,
\* at least n, with the input samples in their order at every other
\* position; 16 kHz to 8 kHz gives between n/2-1 and n/2+1 samples, at most
\* n, each taken from the input in its order.
C24_ResampleCountAndOrder ==
    LET n == Len(util_in.pcm.samples)
        m == Len(util_out.samples)
    IN  /\ util_op = "resample_8k_to_16k" =>
              /\ 2 * n - 1 <= m /\ m <= 2 * n + 1
              /\ m >= n
              /\ \A i \in 1..n : util_out.samples[2 * i - 1] = util_in.pcm.samples[i]
        /\ util_op = "resample_16k_to_8k" =>
              /\ n - 2 <= 2 * m /\ 2 * m <= n + 2
              /\ m <= n
              /\ \A j \in 1..m : util_out.samples[j] = util_in.pcm.samples[2 * j - 1]

\* Three samples were upsampled to five, the first midpoint floored.
C24_Witness ==
    /\ util_op = "resample_8k_to_16k"
    /\ util_in.pcm.samples = <<-3, 0, 4>>
    /\ util_out.samples = <<-3, -2, 0, 2, 4>>

-----------------------------------------------------------------------------
(* Inbound frame size (SpecPayload)                                        *)

\* C21: a media payload whose length is not 160 bytes is not accepted by
\* the segmenter: it is neither appended to the accumulator nor part of a
\* returned utterance.
C21_OnlyFullFramesAccepted ==
    [][\A p \in Payloads :
          (AddChunk(p) /\ p.len # FrameSize) =>
              (_buffer' = _buffer /\ seg_ret' = None)]_vars

-----------------------------------------------------------------------------
(* Sequential handling                                                     *)

ProtocolEvent ==
    \/ \E caller \in Callers : StartEvent(caller)
    \/ \E f \in Frames : MediaEvent(f)
    \/ MarkEvent
    \/ StopEvent
    \/ Disconnect
    \/ MalformedMediaEvent

Processing == pc \in {"greet_tts", "stt", "chat", "tts"}

\* C27: an event is taken only when the handler of the previous one has
\* finished; while an utterance is going through STT, reasoning and TTS no
\* frame is buffered, no start or hangup is handled, and the reasoning engine
\* runs only for that one turn.
C27_OneEventAtATime ==
    [][/\ ProtocolEvent => (pc = "recv" /\ chat_pc # "try")
       /\ Processing => UNCHANGED <<bufVars, starts, hangups>>
       /\ chat_pc' = "try" => pc' = "chat"]_vars

\* A turn is in the middle of its reasoning, one provider already tried,
\* outside on_hangup.
C27_Witness ==
    /\ pc = "chat"
    /\ chat_pc = "try"
    /\ Len(chat_calls) >= 1
    /\ ~in_hangup
    /\ state = "discussing"

-----------------------------------------------------------------------------
(* Order of the call states                                                *)

StateRank(s) ==
    CASE s = "ringing" -> 0
      [] s = "connected" -> 1
      [] s = "discussing" -> 2
      [] s = "hangup" -> 3
      [] s = "triggering_agents" -> 4
      [] s = "complete" -> 5

\* C29: no step takes the call state from a later state of the order
\* ringing, connected, discussing, hangup, triggering_agents, complete to an
\* earlier one, and nothing leaves complete.
C29_StateOnlyMovesForward ==
    [][/\ StateRank(state') >= StateRank(state)
       /\ state = "complete" => state' = "complete"]_vars

\* C30: with barge-in disabled, no clear message is ever sent.
C30_NoClearSent ==
    \A i \in 1..Len(outbox) : outbox[i] # ClearMessage

\* C28: with several calls in progress, every utterance a call's segmenter
\* emitted holds only frames received on that call's connection, every turn
\* of a call's history is a turn of that call, and a step of one call leaves
\* every other call's history, playing flag, call state and pending audio
\* untouched.
C28_CallsShareNoState ==
    /\ [](\A c \in DOMAIN managers :
            /\ \A i \in 1..Len(managers[c].utterance) :
                   managers[c].utterance[i] = c
            /\ \A i \in 1..Len(managers[c].messages) :
                   managers[c].messages[i].call = c)
    /\ [][\A c \in DOMAIN managers :
            CallEvent(c) =>
                \A d \in DOMAIN managers \ {c} :
                    /\ managers'[d] = managers[d]
                    /\ audio_buffers'[d] = audio_buffers[d]]_vars

\* Call 1 has hung up with an utterance of two of its own frames while
\* call 2, still in conversation, holds a frame of its own.
C28_Witness ==
    /\ DOMAIN managers = CallIds
    /\ managers[1].utterance = <<1, 1>>
    /\ managers[1].state = "complete"
    /\ managers[2].state = "discussing"
    /\ audio_buffers[2] = <<2>>

-----------------------------------------------------------------------------
(* What a synthesized reply puts on the wire                               *)

IsMediaMessage(m) == m.event = "media"

IsMarkMessage(m) == m.event = "mark"

\* What a step added to the outbox.
Sent == SubSeq(outbox', Len(outbox) + 1, Len(outbox'))

\* C31: a step in which the synthesis of a reply succeeds sends the reply's
\* chunks in order and, after them, exactly one mark whose name no earlier
\* mark of the call carries.
C31_ReplyFramesThenNewMark ==
    [][(pc = "tts" /\ _mark_counter' = _mark_counter + 1) =>
          \E tts \in TtsOutcomes :
              /\ tts.ok
              /\ SelectSeq(Sent, IsMediaMessage) = MediaMessages(SplitMulaw(tts.bytes))
              /\ Len(SelectSeq(Sent, IsMarkMessage)) = 1
              /\ IsMarkMessage(Sent[Len(Sent)])
              /\ \A i \in 1..Len(outbox) :
                    IsMarkMessage(outbox[i]) => outbox[i].name # Sent[Len(Sent)].name]_vars

\* C32: outside on_hangup, a step that sets the playing flag (the greeting
\* or a reply was synthesized, with or without audio chunks) also sends a
\* mark for that playback.
C32_PlayingFlagComesWithMark ==
    [][(/\ ~in_hangup
        /\ \/ pc = "greet_tts" /\ _is_playing'
           \/ pc = "tts" /\ _mark_counter' = _mark_counter + 1) =>
          (Sent # <<>> /\ IsMarkMessage(Sent[Len(Sent)]))]_vars

-----------------------------------------------------------------------------
(* The end of a connection                                                 *)

\* C33: on_hangup is entered at most once per connection, and exactly once,
\* from the stop branch, the disconnect branch or the error branch, by the
\* time the connection's task is over; a job id once returned is never
\* replaced, and the state complete, once reached, is never left.
C33_HangupExactlyOnce ==
    /\ [](hangups <= 1)
    /\ [](pc = "closed" =>
            /\ hangups = 1
            /\ hangup_from \in {"stop", "disconnect", "error"})
    /\ [][/\ job_id # "none" => job_id' = job_id
          /\ state = "complete" => state' = "complete"]_vars

\* The loop's except Exception branch ran on_hangup, which dispatched a job.
C33_Witness ==
    /\ pc = "closed"
    /\ hangups = 1
    /\ hangup_from = "error"
    /\ job_id = "job"
    /\ state = "complete"

-----------------------------------------------------------------------------
(* Audio before the start of the call                                      *)

\* C34: a media frame handled while the call state is still ringing is not
\* fed to the segmenter: the accumulator and the VAD counters keep their
\* values and no utterance enters _process_utterance.
C34_NoAudioBeforeStart ==
    [][\A f \in Frames :
          (state = "ringing" /\ MediaEvent(f)) =>
              (UNCHANGED bufVars /\ pc' = "recv")]_vars

\* C35: once an utterance with usable text has been transcribed, the
\* session's language and the context's detected language are both the
\* language detected for that utterance.
C35_SessionLanguageFollowsUtterance ==
    [][\A stt \in UserTexts :
          Transcribed(stt) =>
              /\ _client_language' = DetectLanguage(stt)
              /\ detected_language' = DetectLanguage(stt)]_vars

-----------------------------------------------------------------------------
(* The memory store (SpecMemory)                                           *)

\* C36: an upsert of an existing client record changes only the fields its
\* caller passes: every other column keeps its stored value.
C36_UpsertKeepsUnsuppliedFields ==
    [][\A args \in RememberCalls :
          (RememberClient(args) /\ clients # NoRow) =>
              \A f \in ClientFields \ DOMAIN args : clients'[f] = clients[f]]_vars

-----------------------------------------------------------------------------
(* Conservation of audio (SpecAudio)                                       *)

RECURSIVE Concat(_)
Concat(seqs) == IF seqs = <<>> THEN <<>> ELSE Head(seqs) \o Concat(Tail(seqs))

\* C37: the utterances returned so far, in order, followed by what the
\* accumulator holds, are exactly the frames passed to add_chunk, in order;
\* and the accumulator's length is the length of its content.
C37_AudioConserved ==
    /\ Concat(seg_out) \o seg_content = seg_fed
    /\ _buffer = Len(seg_content) * FrameSize

\* The cap returned a seven-frame utterance, flush_remaining a later
\* two-frame one, every frame of the two being different from its
\* neighbour, and the accumulator is empty again.
C37_Witness ==
    /\ Len(seg_out) = 2
    /\ Len(seg_out[1]) = 7
    /\ Len(seg_out[2]) = 2
    /\ seg_out[1][1] # seg_out[1][2]
    /\ seg_out[2][1] # seg_out[2][2]
    /\ seg_content = <<>>
    /\ seg_op = "flush_remaining"

-----------------------------------------------------------------------------
(* Empty replies of a provider (SpecChat)                                  *)

\* C38: a provider call that returns an empty text is passed over like a
\* failed one: the active provider and the result stay as they were and the
\* loop moves to the next provider; what chat() returns is a provider's
\* non-empty text or the apology, never an empty text.
C38_EmptyTextIsAFailure ==
    /\ [](ChatReturned => chat_result.kind \in {"text", "apology"})
    /\ [][(/\ chat_pc = "try"
           /\ Len(chat_outcomes') = Len(chat_outcomes) + 1
           /\ chat_outcomes'[Len(chat_outcomes')] = "empty") =>
             /\ _active_provider' = _active_provider
             /\ chat_result' = NoResult
             /\ chat_pc' = "try"
             /\ chat_i' = chat_i + 1]_vars

\* The first provider returned an empty text and the second one answered.
C38_Witness ==
    /\ ChatReturned
    /\ chat_outcomes = <<"empty", "ok">>
    /\ chat_result = ProviderText(_providers[2].provider)
    /\ _active_provider = _providers[2].provider

-----------------------------------------------------------------------------
(* The two turn logs                                                       *)

IsPrefixOf(a, b) == Len(a) <= Len(b) /\ SubSeq(b, 1, Len(a)) = a

\* C39: context.messages and _chat_history are the same sequence in every
\* state and only grow by appending; a user turn is appended alone, when an
\* utterance is handed to the reasoning engine, and the next thing appended
\* is the assistant turn of that utterance, so that outside the await on
\* chat() the last turn is never a user turn.
C39_TurnLogsAgree ==
    /\ [](messages = _chat_history)
    /\ [](pc # "chat" =>
            (messages = <<>> \/ messages[Len(messages)].role = "assistant"))
    /\ [][/\ IsPrefixOf(messages, messages')
          /\ IsPrefixOf(_chat_history, _chat_history')
          /\ Len(messages') <= Len(messages) + 1
          /\ (pc # "chat" /\ pc' = "chat") =>
                 /\ Len(messages') = Len(messages) + 1
                 /\ messages'[Len(messages')].role = "user"
          /\ (pc = "chat" /\ pc' # "chat") =>
                 /\ Len(messages') = Len(messages) + 1
                 /\ messages[Len(messages)].role = "user"
                 /\ messages'[Len(messages')].role = "assistant"]_vars

\* Greeting, one user turn and its reply, in both logs, the reply being
\* played.
C39_Witness ==
    /\ pc = "recv"
    /\ Len(_chat_history) = 3
    /\ _chat_history[1].role = "assistant"
    /\ _chat_history[2].role = "user"
    /\ _chat_history[3].role = "assistant"
    /\ messages[3].content.kind = "text"
    /\ _is_playing
    /\ response = "chunks"

====
